---- MODULE Spec2Model ----
(***************************************************************************)
(* Blood pressure engine of the ESP32 firmware (BloodPressureMonitor,      *)
(* src/esp32_firmware/src/blood_pressure.cpp): sample ingestion, peak      *)
(* detection, pulse-transit-time matching, calibration and the reading.    *)
(*                                                                         *)
(* A C++ float is modelled as an exact rational <<n, d>> in lowest terms   *)
(* with d > 0; d = 0 encodes the non-finite results of IEEE division:      *)
(* <<0,0>> is NaN, <<1,0>> is +infinity and <<-1,0>> is -infinity.         *)
(* Rounding of the 24-bit mantissa is not modelled.  The arrays             *)
(* ecgTimestamps and ppgTimestamps, which the program writes and never     *)
(* reads, are left out.                                                    *)
(***************************************************************************)
EXTENDS Integers, Sequences, FiniteSets, TLC

\* ------------------------------------------------------------------------
\* float arithmetic
\* ------------------------------------------------------------------------
Abs(x) == IF x < 0 THEN -x ELSE x

Sign(x) == IF x < 0 THEN -1 ELSE IF x > 0 THEN 1 ELSE 0

RECURSIVE GCD(_, _)
GCD(a, b) == IF b = 0 THEN a ELSE GCD(b, a % b)

Norm(n, d) ==
  IF d = 0 THEN <<Sign(n), 0>>
  ELSE LET g == GCD(Abs(n), Abs(d))
       IN  <<(Sign(d) * n) \div g, Abs(d) \div g>>

F(i) == <<i, 1>>

NaN == <<0, 0>>

IsFinite(a) == a[2] # 0

FAdd(a, b) ==
  IF ~IsFinite(a) /\ ~IsFinite(b)
    THEN (IF a = b THEN a ELSE NaN)
    ELSE LET g == GCD(a[2], b[2])
         IN  IF g = 0 THEN Norm(a[1] * b[2] + b[1] * a[2], a[2] * b[2])
             ELSE Norm(a[1] * (b[2] \div g) + b[1] * (a[2] \div g),
                       (a[2] \div g) * b[2])

FNeg(a) == <<-a[1], a[2]>>

FSub(a, b) == FAdd(a, FNeg(b))

FMul(a, b) == Norm(a[1] * b[1], a[2] * b[2])

\* a finite value divided by zero is an infinity of its sign, 0 / 0 is NaN
FDiv(a, b) ==
  IF b = F(0) THEN <<Sign(a[1]), 0>>
  ELSE Norm(a[1] * b[2] * Sign(b[1]), a[2] * Abs(b[1]))

RECURSIVE LessFrac(_, _, _, _)
\* p / q < r / s for q, s > 0, decided on the integer parts and then on the
\* inverted remainders, so that no product of the two fractions is formed
LessFrac(p, q, r, s) ==
  IF p \div q # r \div s THEN p \div q < r \div s
  ELSE IF r % s = 0 THEN FALSE
  ELSE IF p % q = 0 THEN TRUE
  ELSE LessFrac(s, r % s, q, p % q)

\* a < b as IEEE compares: false as soon as one side is NaN
FLt(a, b) ==
  /\ a # NaN
  /\ b # NaN
  /\ IF ~IsFinite(a) /\ ~IsFinite(b) THEN a[1] < b[1]
     ELSE IF ~IsFinite(a) THEN a[1] < 0
     ELSE IF ~IsFinite(b) THEN b[1] > 0
     ELSE LessFrac(a[1], a[2], b[1], b[2])

FGt(a, b) == FLt(b, a)

FLe(a, b) == a # NaN /\ b # NaN /\ ~FLt(b, a)

Min(a, b) == IF a < b THEN a ELSE b

Max(a, b) == IF a > b THEN a ELSE b

\* unsigned long subtraction: 32 bit, wraps modulo 2^32 = 65536 * 65536
USub(a, b) == IF a >= b THEN a - b ELSE (a - b) + 65536 * 65536

RECURSIVE FSumRange(_, _, _)
\* sum of f[lo] .. f[hi-1], halving the range so that the evaluation stays shallow
FSumRange(f, lo, hi) ==
  IF lo >= hi THEN F(0)
  ELSE IF hi = lo + 1 THEN f[lo]
  ELSE LET mid == (lo + hi) \div 2
       IN  FAdd(FSumRange(f, lo, mid), FSumRange(f, mid, hi))

\* sum of f[0] .. f[n-1]
FSum(f, n) == FSumRange(f, 0, n)

\* ------------------------------------------------------------------------
\* program constants
\* ------------------------------------------------------------------------
BP_BUFFER_SIZE == 200
FILTER_SIZE == 10
PEAK_SLOTS == 20
RR_SLOTS == 50
MAX_CALIBRATION == 5
ECG_REFRACTORY == 300
PPG_REFRACTORY == 400
DEFAULT_ECG_THRESHOLD == 1500
DEFAULT_PPG_THRESHOLD == 50000
ADAPT_PERIOD == 5000
STALE_AFTER == 10000

VARIABLES
  clock,                 \* millis()
  calibrationPoints, calibrationCount,
  systolicSlope, systolicIntercept, diastolicSlope, diastolicIntercept,
  ecgBuffer, ecgBufferIndex,
  ppgBuffer, ppgBufferIndex,
  ecgPeaks, ppgPeaks, ecgPeakCount, ppgPeakCount,
  rrIntervals, rrCount,
  rrLog,                 \* history: the R-R intervals recorded since reset, in order
  ecgThreshold, ppgThreshold, adaptiveThresholding,
  lastValidReading,
  ecgFilterBuffer, ppgFilterBuffer, filterIndex,
  ecgRaw, ppgRaw,        \* history: the last raw values handed in, per channel
  userAge, userHeight, userIsMale,
  ecgPeakLog, ppgPeakLog,\* history: the timestamps of the peaks recorded since reset
  ecgDet, ppgDet,        \* the function-local statics of the two detectors
  lastUpdate,            \* the function-local static of adaptThresholds
  thresholdLog,          \* history: the times at which a threshold changed
  passedProfile,         \* history: the arguments of the last setPersonalParameters
  lastOp,                \* the operation that ran last
  lastReading,           \* the reading returned, when lastOp is calculateBloodPressure
  calRet,                \* the value returned, when lastOp is addCalibrationPoint
  phase, beats, calls,   \* the sampling schedule of the environment
  rhythm, changes,
  pc                     \* where an addECGSample call in progress stands

calibVars == <<calibrationPoints, calibrationCount,
               systolicSlope, systolicIntercept, diastolicSlope, diastolicIntercept>>

sampleVars == <<ecgBuffer, ecgBufferIndex,
                ppgBuffer, ppgBufferIndex,
                ecgFilterBuffer, ppgFilterBuffer, filterIndex,
                ecgRaw, ppgRaw>>

\* the last FILTER_SIZE entries of a history of raw values
Recent(raw) == SubSeq(raw, Max(1, Len(raw) - (FILTER_SIZE - 1)), Len(raw))

ecgPeakVars == <<ecgPeaks, ecgPeakCount, rrIntervals, rrCount, rrLog, ecgPeakLog>>

ppgPeakVars == <<ppgPeaks, ppgPeakCount, ppgPeakLog>>

thresholdVars == <<ecgThreshold, ppgThreshold, lastUpdate, thresholdLog>>

userVars == <<userAge, userHeight, userIsMale, passedProfile>>

NoProfile == [age |-> 0, height |-> <<0, 1>>, isMale |-> FALSE, passed |-> FALSE]

vars == <<clock, calibVars, sampleVars, ecgPeakVars, ppgPeakVars, thresholdVars,
          adaptiveThresholding, lastValidReading, userVars, ecgDet, ppgDet,
          lastOp, lastReading, calRet, phase, beats, calls, rhythm, changes, pc>>

ZeroDetector == [lastValue |-> F(0), lastDerivative |-> F(0),
                 risingEdge |-> FALSE, lastPeakTime |-> 0]

ZeroPeak == [index |-> 0, value |-> F(0), timestamp |-> 0]

ZeroPoint == [ptt |-> F(0), systolic |-> F(0), diastolic |-> F(0), timestamp |-> 0]

\* BloodPressureData data = {0, 0, 0, 0, 0, 0, false, true, millis(), 0, 0, false}
EmptyReading(now) ==
  [systolic |-> F(0), diastolic |-> F(0), meanArterialPressure |-> F(0),
   pulseTransitTime |-> F(0), pulseWaveVelocity |-> F(0),
   heartRateVariability |-> [sqrtOf |-> F(0)],
   validReading |-> FALSE, needsCalibration |-> TRUE, timestamp |-> now,
   signalQuality |-> 0, correlationCoeff |-> 0, rhythmRegular |-> FALSE]

\* lastReading and calRet hold the value the last operation returned; an operation
\* that returns no such value leaves these placeholders
NoReading == EmptyReading(0)

NoReturn == lastReading' = NoReading /\ calRet' = FALSE

\* the state after the constructor and the in-class member initialisers
EngineInit ==
  /\ calibrationPoints = [i \in 0 .. MAX_CALIBRATION - 1 |-> ZeroPoint]
  /\ calibrationCount = 0
  /\ systolicSlope = <<-6, 5>>
  /\ systolicIntercept = F(180)
  /\ diastolicSlope = <<-4, 5>>
  /\ diastolicIntercept = F(120)
  /\ ecgBuffer = [i \in 0 .. BP_BUFFER_SIZE - 1 |-> F(0)]
  /\ ppgBuffer = [i \in 0 .. BP_BUFFER_SIZE - 1 |-> F(0)]
  /\ ecgBufferIndex = 0
  /\ ppgBufferIndex = 0
  /\ ecgPeaks = [i \in 0 .. PEAK_SLOTS - 1 |-> ZeroPeak]
  /\ ppgPeaks = [i \in 0 .. PEAK_SLOTS - 1 |-> ZeroPeak]
  /\ ecgPeakCount = 0
  /\ ppgPeakCount = 0
  /\ rrIntervals = [i \in 0 .. RR_SLOTS - 1 |-> 0]
  /\ rrCount = 0
  /\ rrLog = <<>>
  /\ ecgPeakLog = <<>>
  /\ ppgPeakLog = <<>>
  /\ ecgThreshold = F(DEFAULT_ECG_THRESHOLD)
  /\ ppgThreshold = F(DEFAULT_PPG_THRESHOLD)
  /\ adaptiveThresholding = TRUE
  /\ lastValidReading = 0
  /\ ecgFilterBuffer = [i \in 0 .. FILTER_SIZE - 1 |-> 0]
  /\ ppgFilterBuffer = [i \in 0 .. FILTER_SIZE - 1 |-> 0]
  /\ ecgRaw = <<>>
  /\ ppgRaw = <<>>
  /\ filterIndex = 0
  /\ userAge = 30
  /\ userHeight = F(170)
  /\ userIsMale = TRUE
  /\ ecgDet = ZeroDetector
  /\ ppgDet = ZeroDetector
  /\ lastUpdate = 0
  /\ thresholdLog = <<>>
  /\ passedProfile = NoProfile
  /\ lastOp = "construct"
  /\ lastReading = NoReading
  /\ calRet = FALSE

\* ------------------------------------------------------------------------
\* signal path
\* ------------------------------------------------------------------------
RECURSIVE IntSum(_, _)
\* sum of f[0] .. f[n-1]
IntSum(f, n) == IF n = 0 THEN 0 ELSE IntSum(f, n - 1) + f[n - 1]

\* applyBandpassFilter: the buffer after the write at the shared filterIndex,
\* and the mean of its ten slots
applyBandpassFilter(buffer, newValue) ==
  LET written == [buffer EXCEPT ![filterIndex] = newValue]
  IN  [buffer |-> written,
       index  |-> (filterIndex + 1) % FILTER_SIZE,
       value  |-> Norm(IntSum(written, FILTER_SIZE), FILTER_SIZE)]

\* the body shared by detectECGPeak and detectPPGPeak; now is millis()
\* mutant: a discarded candidate leaves the rising flag set
detectPeak_DiscardKeepsRising(det, value, threshold, refractory, now) ==
  LET derivative == FSub(value, det.lastValue)
      rising == IF /\ FGt(value, threshold)
                   /\ FGt(derivative, F(0))
                   /\ FLe(det.lastDerivative, F(0))
                THEN TRUE ELSE det.risingEdge
      candidate == /\ rising
                   /\ FLt(derivative, F(0))
                   /\ FLe(F(0), det.lastDerivative)
  IN  IF candidate /\ USub(now, det.lastPeakTime) > refractory
        THEN [fired |-> TRUE,
              det |-> [lastValue |-> value, lastDerivative |-> derivative,
                       risingEdge |-> FALSE, lastPeakTime |-> now]]
        ELSE [fired |-> FALSE,
              det |-> [lastValue |-> value, lastDerivative |-> derivative,
                       risingEdge |-> rising,
                       lastPeakTime |-> det.lastPeakTime]]

detectPeak(det, value, threshold, refractory, now) ==
  LET derivative == FSub(value, det.lastValue)
      rising == IF /\ FGt(value, threshold)
                   /\ FGt(derivative, F(0))
                   /\ FLe(det.lastDerivative, F(0))
                THEN TRUE ELSE det.risingEdge
      candidate == /\ rising
                   /\ FLt(derivative, F(0))
                   /\ FLe(F(0), det.lastDerivative)
  IN  IF candidate /\ USub(now, det.lastPeakTime) > refractory
        THEN [fired |-> TRUE,
              det |-> [lastValue |-> value, lastDerivative |-> derivative,
                       risingEdge |-> FALSE, lastPeakTime |-> now]]
        ELSE [fired |-> FALSE,
              det |-> [lastValue |-> value, lastDerivative |-> derivative,
                       risingEdge |-> IF candidate THEN FALSE ELSE rising,
                       lastPeakTime |-> det.lastPeakTime]]

detectECGPeak(value) == detectPeak(ecgDet, value, ecgThreshold, ECG_REFRACTORY, clock)

detectPPGPeak(value) == detectPeak(ppgDet, value, ppgThreshold, PPG_REFRACTORY, clock)

\* adaptThresholds, run at the end of addECGSample on the ECG buffer and index
\* that call has just written
\* mutant: the 5 s cadence test is missing
adaptThresholds_EveryCall(newEcgBuffer, newEcgIndex) ==
  LET samples == Min(newEcgIndex, 50)
      ecgMean == FDiv(FSum(newEcgBuffer, samples), F(samples))
      ppgMean == FDiv(FSum(ppgBuffer, samples), F(samples))
  IN  IF samples > 0
        THEN [ecg |-> FMul(ecgMean, <<3, 2>>),
              ppg |-> FMul(ppgMean, <<3, 2>>),
              lastUpdate |-> clock]
        ELSE [ecg |-> ecgThreshold, ppg |-> ppgThreshold,
              lastUpdate |-> clock]

adaptThresholds(newEcgBuffer, newEcgIndex) ==
  IF USub(clock, lastUpdate) < ADAPT_PERIOD
    THEN [ecg |-> ecgThreshold, ppg |-> ppgThreshold, lastUpdate |-> lastUpdate]
    ELSE LET samples == Min(newEcgIndex, 50)
             ecgMean == FDiv(FSum(newEcgBuffer, samples), F(samples))
             ppgMean == FDiv(FSum(ppgBuffer, samples), F(samples))
         IN  IF samples > 0
               THEN [ecg |-> FMul(ecgMean, <<3, 2>>),
                     ppg |-> FMul(ppgMean, <<3, 2>>),
                     lastUpdate |-> clock]
               ELSE [ecg |-> ecgThreshold, ppg |-> ppgThreshold,
                     lastUpdate |-> clock]

\* ------------------------------------------------------------------------
\* estimators over the peak store
\* ------------------------------------------------------------------------
\* the PPG peaks calculatePTT scans for the ECG peak number i, in scan order
\* mutant: PPG peaks up to 1000 ms after the ECG peak are matched
PTTCandidates_WideWindow(i) ==
  LET ecgTime == ecgPeaks[i % PEAK_SLOTS].timestamp
  IN  {j \in Max(0, ppgPeakCount - 10) .. ppgPeakCount - 1 :
         LET ppgTime == ppgPeaks[j % PEAK_SLOTS].timestamp
         IN  /\ ppgTime > ecgTime
             /\ USub(ppgTime, ecgTime) >= 50
             /\ USub(ppgTime, ecgTime) <= 1000}

PTTCandidates(i) ==
  LET ecgTime == ecgPeaks[i % PEAK_SLOTS].timestamp
  IN  {j \in Max(0, ppgPeakCount - 10) .. ppgPeakCount - 1 :
         LET ppgTime == ppgPeaks[j % PEAK_SLOTS].timestamp
         IN  /\ ppgTime > ecgTime
             /\ USub(ppgTime, ecgTime) >= 50
             /\ USub(ppgTime, ecgTime) <= 400}

\* mutant: the last match is taken instead of the first
PTTDelta_LastMatch(i) ==
  LET j == CHOOSE m \in PTTCandidates(i) : \A k \in PTTCandidates(i) : m >= k
  IN  USub(ppgPeaks[j % PEAK_SLOTS].timestamp, ecgPeaks[i % PEAK_SLOTS].timestamp)

\* the delta of the first match of ECG peak number i (break on first match)
PTTDelta(i) ==
  LET j == CHOOSE m \in PTTCandidates(i) : \A k \in PTTCandidates(i) : m <= k
  IN  USub(ppgPeaks[j % PEAK_SLOTS].timestamp, ecgPeaks[i % PEAK_SLOTS].timestamp)

RECURSIVE PTTTotal(_, _)
\* totalPTT and validPairs accumulated over the ECG peaks lo .. hi-1
PTTTotal(lo, hi) ==
  IF lo >= hi THEN [totalPTT |-> 0, validPairs |-> 0]
  ELSE LET rest == PTTTotal(lo, hi - 1)
       IN  IF PTTCandidates(hi - 1) = {} THEN rest
           ELSE [totalPTT |-> rest.totalPTT + PTTDelta(hi - 1),
                 validPairs |-> rest.validPairs + 1]

calculatePTT ==
  IF ecgPeakCount < 2 \/ ppgPeakCount < 2 THEN F(-1)
  ELSE LET acc == PTTTotal(Max(0, ecgPeakCount - 10), ecgPeakCount)
       IN  IF acc.validPairs > 0 THEN Norm(acc.totalPTT, acc.validPairs)
           ELSE F(-1)

calculatePWV(ptt) ==
  LET pathLength == FDiv(FMul(userHeight, <<2, 5>>), F(100))
  IN  IF FGt(ptt, F(0)) THEN FDiv(pathLength, FDiv(ptt, F(1000))) ELSE F(0)

RECURSIVE SumSquaredDiff(_)
\* sum over i = 1 .. n-1 of (rrIntervals[i] - rrIntervals[i-1])^2
SumSquaredDiff(n) ==
  IF n <= 1 THEN 0
  ELSE SumSquaredDiff(n - 1)
       + (rrIntervals[n - 1] - rrIntervals[n - 2]) * (rrIntervals[n - 1] - rrIntervals[n - 2])

\* calculateHRV; the result is the square root of the field sqrtOf
calculateHRV ==
  IF rrCount < 10 THEN [sqrtOf |-> F(0)]
  ELSE LET validDiffs == Min(rrCount, RR_SLOTS) - 1
       IN  IF validDiffs > 0
             THEN [sqrtOf |-> Norm(SumSquaredDiff(Min(rrCount, RR_SLOTS)), validDiffs)]
             ELSE [sqrtOf |-> F(0)]

calculateCorrelation == IF ecgPeakCount < 3 \/ ppgPeakCount < 3 THEN 0 ELSE 85

RECURSIVE VarianceSum(_, _)
\* sum over i = 0 .. n-1 of (rrIntervals[i] - mean)^2
VarianceSum(n, mean) ==
  IF n = 0 THEN F(0)
  ELSE LET diff == FSub(F(rrIntervals[n - 1]), mean)
       IN  FAdd(VarianceSum(n - 1, mean), FMul(diff, diff))

\* checkRhythmRegularity; sqrt(variance) < mean * 0.2 is decided on the
\* squares, both sides being non-negative when the right one is positive
checkRhythmRegularity ==
  IF rrCount < 5 THEN FALSE
  ELSE LET n == Min(rrCount, 10)
           mean == Norm(IntSum(rrIntervals, n), n)
           variance == FDiv(VarianceSum(n, mean), F(n))
           limit == FMul(mean, <<1, 5>>)
       IN  FGt(limit, F(0)) /\ FLt(variance, FMul(limit, limit))

\* mutant: the staleness penalty is added instead of subtracted
assessSignalQuality_StaleAdded ==
  LET q1 == IF ecgPeakCount < 5 \/ ppgPeakCount < 5 THEN 100 - 30 ELSE 100
      q2 == IF ~checkRhythmRegularity THEN q1 - 20 ELSE q1
      q3 == IF Abs(calculateCorrelation) < 50 THEN q2 - 25 ELSE q2
      q4 == IF USub(clock, lastValidReading) > STALE_AFTER THEN q3 + 25 ELSE q3
  IN  Max(0, q4)

\* mutant: the staleness penalty alone takes the quality below the gate
assessSignalQuality_StaleFatal ==
  LET q1 == IF ecgPeakCount < 5 \/ ppgPeakCount < 5 THEN 100 - 30 ELSE 100
      q2 == IF ~checkRhythmRegularity THEN q1 - 20 ELSE q1
      q3 == IF Abs(calculateCorrelation) < 50 THEN q2 - 25 ELSE q2
      q4 == IF USub(clock, lastValidReading) > STALE_AFTER THEN q3 - 35 ELSE q3
  IN  Max(0, q4)

\* mutant: too few peaks cost 5 points instead of 30
assessSignalQuality_PeaksLight ==
  LET q1 == IF ecgPeakCount < 5 \/ ppgPeakCount < 5 THEN 100 - 5 ELSE 100
      q2 == IF ~checkRhythmRegularity THEN q1 - 20 ELSE q1
      q3 == IF Abs(calculateCorrelation) < 50 THEN q2 - 25 ELSE q2
      q4 == IF USub(clock, lastValidReading) > STALE_AFTER THEN q3 - 25 ELSE q3
  IN  Max(0, q4)

assessSignalQuality ==
  LET q1 == IF ecgPeakCount < 5 \/ ppgPeakCount < 5 THEN 100 - 30 ELSE 100
      q2 == IF ~checkRhythmRegularity THEN q1 - 20 ELSE q1
      q3 == IF Abs(calculateCorrelation) < 50 THEN q2 - 25 ELSE q2
      q4 == IF USub(clock, lastValidReading) > STALE_AFTER THEN q3 - 25 ELSE q3
  IN  Max(0, q4)

\* mutant: || written for the first &&
isReadyForMeasurement_Or ==
  ecgPeakCount >= 5 \/ (ppgPeakCount >= 5 /\ assessSignalQuality > 60)

isReadyForMeasurement ==
  ecgPeakCount >= 5 /\ ppgPeakCount >= 5 /\ assessSignalQuality > 60

compensateForAge(rawBP, age) == FMul(rawBP, FAdd(F(1), FMul(F(age - 30), <<1, 200>>)))

compensateForGender(rawBP, isMale) ==
  FMul(rawBP, IF isMale THEN <<51, 50>> ELSE F(1))

\* ------------------------------------------------------------------------
\* calibration
\* ------------------------------------------------------------------------
RECURSIVE RegressionSums(_, _)
\* the six running sums of updateCalibration over points[0] .. points[n-1]
RegressionSums(points, n) ==
  IF n = 0
    THEN [sumX |-> F(0), sumY_sys |-> F(0), sumY_dia |-> F(0),
          sumXY_sys |-> F(0), sumXY_dia |-> F(0), sumX2 |-> F(0)]
    ELSE LET r == RegressionSums(points, n - 1)
             x == points[n - 1].ptt
             y_sys == points[n - 1].systolic
             y_dia == points[n - 1].diastolic
         IN  [sumX |-> FAdd(r.sumX, x),
              sumY_sys |-> FAdd(r.sumY_sys, y_sys),
              sumY_dia |-> FAdd(r.sumY_dia, y_dia),
              sumXY_sys |-> FAdd(r.sumXY_sys, FMul(x, y_sys)),
              sumXY_dia |-> FAdd(r.sumXY_dia, FMul(x, y_dia)),
              sumX2 |-> FAdd(r.sumX2, FMul(x, x))]

\* mutant: the intercepts are not divided by the number of points
updateCalibration_InterceptNotAveraged(points, count) ==
  IF count < 2
    THEN [systolicSlope |-> systolicSlope, systolicIntercept |-> systolicIntercept,
          diastolicSlope |-> diastolicSlope, diastolicIntercept |-> diastolicIntercept]
    ELSE LET r == RegressionSums(points, count)
             n == F(count)
             denominator == FSub(FMul(n, r.sumX2), FMul(r.sumX, r.sumX))
             sSlope == FDiv(FSub(FMul(n, r.sumXY_sys), FMul(r.sumX, r.sumY_sys)),
                            denominator)
             dSlope == FDiv(FSub(FMul(n, r.sumXY_dia), FMul(r.sumX, r.sumY_dia)),
                            denominator)
         IN  [systolicSlope |-> sSlope,
              systolicIntercept |-> FSub(r.sumY_sys, FMul(sSlope, r.sumX)),
              diastolicSlope |-> dSlope,
              diastolicIntercept |-> FSub(r.sumY_dia, FMul(dSlope, r.sumX))]

\* updateCalibration: the four coefficients after the call
updateCalibration(points, count) ==
  IF count < 2
    THEN [systolicSlope |-> systolicSlope, systolicIntercept |-> systolicIntercept,
          diastolicSlope |-> diastolicSlope, diastolicIntercept |-> diastolicIntercept]
    ELSE LET r == RegressionSums(points, count)
             n == F(count)
             denominator == FSub(FMul(n, r.sumX2), FMul(r.sumX, r.sumX))
             sSlope == FDiv(FSub(FMul(n, r.sumXY_sys), FMul(r.sumX, r.sumY_sys)),
                            denominator)
             dSlope == FDiv(FSub(FMul(n, r.sumXY_dia), FMul(r.sumX, r.sumY_dia)),
                            denominator)
         IN  [systolicSlope |-> sSlope,
              systolicIntercept |-> FDiv(FSub(r.sumY_sys, FMul(sSlope, r.sumX)), n),
              diastolicSlope |-> dSlope,
              diastolicIntercept |-> FDiv(FSub(r.sumY_dia, FMul(dSlope, r.sumX)), n)]

\* ------------------------------------------------------------------------
\* the public operations
\* ------------------------------------------------------------------------
\* mutant: the PPG peak count is not cleared
reset_KeepsPpgCount ==
  /\ ecgBufferIndex' = 0
  /\ ppgBufferIndex' = 0
  /\ ecgPeakCount' = 0
  /\ rrCount' = 0
  /\ rrLog' = <<>>
  /\ ecgPeakLog' = <<>>
  /\ filterIndex' = 0
  /\ lastValidReading' = 0
  /\ lastOp' = "reset"
  /\ UNCHANGED <<clock, calibVars, ecgBuffer, ppgBuffer, ppgPeakVars,
                 ecgPeaks, rrIntervals, thresholdVars, adaptiveThresholding,
                 ecgFilterBuffer, ppgFilterBuffer, ecgRaw, ppgRaw, userVars,
                 ecgDet, ppgDet>>
  /\ NoReturn

\* mutant: the calibration count is cleared as well
reset_ClearsCalibration ==
  /\ ecgBufferIndex' = 0
  /\ ppgBufferIndex' = 0
  /\ ecgPeakCount' = 0
  /\ ppgPeakCount' = 0
  /\ rrCount' = 0
  /\ rrLog' = <<>>
  /\ ecgPeakLog' = <<>>
  /\ ppgPeakLog' = <<>>
  /\ filterIndex' = 0
  /\ lastValidReading' = 0
  /\ calibrationCount' = 0
  /\ lastOp' = "reset"
  /\ UNCHANGED <<clock, calibrationPoints, systolicSlope, systolicIntercept,
                 diastolicSlope, diastolicIntercept, ecgBuffer, ppgBuffer,
                 ecgPeaks, ppgPeaks, rrIntervals, thresholdVars, adaptiveThresholding,
                 ecgFilterBuffer, ppgFilterBuffer, ecgRaw, ppgRaw, userVars,
                 ecgDet, ppgDet>>
  /\ NoReturn

\* mutant: the R-R interval count is not cleared
reset_KeepsRRCount ==
  /\ ecgBufferIndex' = 0
  /\ ppgBufferIndex' = 0
  /\ ecgPeakCount' = 0
  /\ ppgPeakCount' = 0
  /\ ecgPeakLog' = <<>>
  /\ ppgPeakLog' = <<>>
  /\ filterIndex' = 0
  /\ lastValidReading' = 0
  /\ lastOp' = "reset"
  /\ UNCHANGED <<clock, calibVars, ecgBuffer, ppgBuffer, rrCount, rrLog,
                 ecgPeaks, ppgPeaks, rrIntervals, thresholdVars, adaptiveThresholding,
                 ecgFilterBuffer, ppgFilterBuffer, ecgRaw, ppgRaw, userVars,
                 ecgDet, ppgDet>>
  /\ NoReturn

reset ==
  /\ ecgBufferIndex' = 0
  /\ ppgBufferIndex' = 0
  /\ ecgPeakCount' = 0
  /\ ppgPeakCount' = 0
  /\ rrCount' = 0
  /\ rrLog' = <<>>
  /\ ecgPeakLog' = <<>>
  /\ ppgPeakLog' = <<>>
  /\ filterIndex' = 0
  /\ lastValidReading' = 0
  /\ lastOp' = "reset"
  /\ UNCHANGED <<clock, calibVars, ecgBuffer, ppgBuffer,
                 ecgPeaks, ppgPeaks, rrIntervals, thresholdVars, adaptiveThresholding,
                 ecgFilterBuffer, ppgFilterBuffer, ecgRaw, ppgRaw, userVars,
                 ecgDet, ppgDet>>
  /\ NoReturn

addECGSample(ecgValue, timestamp) ==
  LET filter == applyBandpassFilter(ecgFilterBuffer, ecgValue)
      filteredECG == filter.value
      newBuffer == [ecgBuffer EXCEPT ![ecgBufferIndex] = filteredECG]
      newIndex == (ecgBufferIndex + 1) % BP_BUFFER_SIZE
      detection == detectECGPeak(filteredECG)
      peakIndex == ecgPeakCount % PEAK_SLOTS
      newCount == ecgPeakCount + 1
      prevIndex == (newCount - 2) % PEAK_SLOTS
      rrInterval == USub(timestamp, ecgPeaks[prevIndex].timestamp)
      rrValid == newCount > 1 /\ rrInterval > 300 /\ rrInterval < 2000
      adapted == adaptThresholds(newBuffer, newIndex)
  IN  /\ ecgFilterBuffer' = filter.buffer
      /\ ecgRaw' = Recent(Append(ecgRaw, ecgValue))
      /\ filterIndex' = filter.index
      /\ ecgBuffer' = newBuffer
      /\ ecgBufferIndex' = newIndex
      /\ ecgDet' = detection.det
      /\ IF detection.fired
           THEN /\ ecgPeaks' = [ecgPeaks EXCEPT ![peakIndex] =
                                  [index |-> newIndex, value |-> filteredECG,
                                   timestamp |-> timestamp]]
                /\ ecgPeakCount' = newCount
                /\ ecgPeakLog' = Append(ecgPeakLog, timestamp)
                /\ IF rrValid
                     THEN /\ rrIntervals' = [rrIntervals EXCEPT ![rrCount % RR_SLOTS] = rrInterval]
                          /\ rrCount' = rrCount + 1
                          /\ rrLog' = Append(rrLog, rrInterval)
                     ELSE UNCHANGED <<rrIntervals, rrCount, rrLog>>
           ELSE UNCHANGED ecgPeakVars
      /\ IF adaptiveThresholding
           THEN /\ ecgThreshold' = adapted.ecg
                /\ ppgThreshold' = adapted.ppg
                /\ lastUpdate' = adapted.lastUpdate
                /\ thresholdLog' =
                     IF adapted.ecg # ecgThreshold \/ adapted.ppg # ppgThreshold
                       THEN Append(thresholdLog, clock)
                       ELSE thresholdLog
           ELSE UNCHANGED thresholdVars
      /\ lastOp' = "addECGSample"
      /\ UNCHANGED <<clock, calibVars, ppgBuffer, ppgBufferIndex,
                     ppgFilterBuffer, ppgRaw, ppgPeakVars, adaptiveThresholding,
                     lastValidReading, userVars, ppgDet>>
      /\ NoReturn

\* addECGSample statement by statement, for a caller that can be interleaved
\* with another task.  First the filter, the sample buffer, the detector and,
\* on a peak, the write of the peak slot.
addECGSample_detect(ecgValue, timestamp) ==
  LET filter == applyBandpassFilter(ecgFilterBuffer, ecgValue)
      filteredECG == filter.value
      newIndex == (ecgBufferIndex + 1) % BP_BUFFER_SIZE
      detection == detectECGPeak(filteredECG)
  IN  /\ ecgFilterBuffer' = filter.buffer
      /\ ecgRaw' = Recent(Append(ecgRaw, ecgValue))
      /\ filterIndex' = filter.index
      /\ ecgBuffer' = [ecgBuffer EXCEPT ![ecgBufferIndex] = filteredECG]
      /\ ecgBufferIndex' = newIndex
      /\ ecgDet' = detection.det
      /\ IF detection.fired
           THEN /\ ecgPeaks' = [ecgPeaks EXCEPT ![ecgPeakCount % PEAK_SLOTS] =
                                  [index |-> newIndex, value |-> filteredECG,
                                   timestamp |-> timestamp]]
                /\ ecgPeakLog' = Append(ecgPeakLog, timestamp)
           ELSE UNCHANGED <<ecgPeaks, ecgPeakLog>>
      /\ lastOp' = "addECGSample"
      /\ UNCHANGED <<clock, calibVars, ppgBuffer, ppgBufferIndex, ppgFilterBuffer, ppgRaw,
                     ecgPeakCount, rrIntervals, rrCount, rrLog, ppgPeakVars,
                     thresholdVars,
                     adaptiveThresholding, lastValidReading, userVars, ppgDet>>
      /\ NoReturn

\* ecgPeakCount++
addECGSample_count ==
  /\ ecgPeakCount' = ecgPeakCount + 1
  /\ lastOp' = "addECGSample"
  /\ UNCHANGED <<clock, calibVars, sampleVars, ecgPeaks, rrIntervals, rrCount, rrLog,
                 ecgPeakLog, ppgPeakVars, thresholdVars, adaptiveThresholding,
                 lastValidReading, userVars, ecgDet, ppgDet>>
  /\ NoReturn

\* the test ecgPeakCount > 1, which reads the count and changes nothing
addECGSample_test ==
  /\ lastOp' = "addECGSample"
  /\ UNCHANGED <<clock, calibVars, sampleVars, ecgPeakVars, ppgPeakVars, thresholdVars,
                 adaptiveThresholding, lastValidReading, userVars, ecgDet, ppgDet>>
  /\ NoReturn

\* the remainder of int division as C++ computes it: of the sign of a
CRem(a, b) == IF a >= 0 THEN a % b ELSE -((-a) % b)

\* what a read of ecgPeaks[index].timestamp yields: the slot, or for an index
\* outside the array whatever the memory there holds
PeakTimeRead(index, now) ==
  IF index \in 0..(PEAK_SLOTS - 1) THEN {ecgPeaks[index].timestamp} ELSE {0, now}

\* the R-R interval of the peak just counted, the count being read again
\* after the test
addECGSample_rr(timestamp) ==
  LET prevIndex == CRem(ecgPeakCount - 2, PEAK_SLOTS)
  IN  /\ \E prevTime \in PeakTimeRead(prevIndex, timestamp) :
           LET rrInterval == USub(timestamp, prevTime)
           IN  IF rrInterval > 300 /\ rrInterval < 2000
                 THEN /\ rrIntervals' = [rrIntervals EXCEPT ![rrCount % RR_SLOTS] = rrInterval]
                      /\ rrCount' = rrCount + 1
                      /\ rrLog' = Append(rrLog, rrInterval)
                 ELSE UNCHANGED <<rrIntervals, rrCount, rrLog>>
      /\ lastOp' = "addECGSample"
      /\ UNCHANGED <<clock, calibVars, sampleVars, ecgPeaks, ecgPeakCount,
                     ecgPeakLog, ppgPeakVars, thresholdVars, adaptiveThresholding,
                     lastValidReading, userVars, ecgDet, ppgDet>>
      /\ NoReturn

\* the threshold adjustment that ends the call
addECGSample_adapt ==
  LET adapted == adaptThresholds(ecgBuffer, ecgBufferIndex)
  IN  /\ IF adaptiveThresholding
           THEN /\ ecgThreshold' = adapted.ecg
                /\ ppgThreshold' = adapted.ppg
                /\ lastUpdate' = adapted.lastUpdate
                /\ thresholdLog' =
                     IF adapted.ecg # ecgThreshold \/ adapted.ppg # ppgThreshold
                       THEN Append(thresholdLog, clock)
                       ELSE thresholdLog
           ELSE UNCHANGED thresholdVars
      /\ lastOp' = "addECGSample"
      /\ UNCHANGED <<clock, calibVars, sampleVars, ecgPeakVars, ppgPeakVars,
                     adaptiveThresholding, lastValidReading, userVars, ecgDet, ppgDet>>
      /\ NoReturn

\* mutant: the peak is stored one slot too far
addPPGSample_SlotAfterCount(irValue, timestamp) ==
  LET filter == applyBandpassFilter(ppgFilterBuffer, irValue)
      filteredPPG == filter.value
      newIndex == (ppgBufferIndex + 1) % BP_BUFFER_SIZE
      detection == detectPPGPeak(filteredPPG)
      peakIndex == (ppgPeakCount + 1) % PEAK_SLOTS
  IN  /\ ppgFilterBuffer' = filter.buffer
      /\ ppgRaw' = Recent(Append(ppgRaw, irValue))
      /\ filterIndex' = filter.index
      /\ ppgBuffer' = [ppgBuffer EXCEPT ![ppgBufferIndex] = filteredPPG]
      /\ ppgBufferIndex' = newIndex
      /\ ppgDet' = detection.det
      /\ IF detection.fired
           THEN /\ ppgPeaks' = [ppgPeaks EXCEPT ![peakIndex] =
                                  [index |-> newIndex, value |-> filteredPPG,
                                   timestamp |-> timestamp]]
                /\ ppgPeakCount' = ppgPeakCount + 1
                /\ ppgPeakLog' = Append(ppgPeakLog, timestamp)
           ELSE UNCHANGED ppgPeakVars
      /\ lastOp' = "addPPGSample"
      /\ UNCHANGED <<clock, calibVars, ecgBuffer, ecgBufferIndex,
                     ecgFilterBuffer, ecgRaw, ecgPeakVars, thresholdVars, adaptiveThresholding,
                     lastValidReading, userVars, ecgDet>>
      /\ NoReturn

addPPGSample(irValue, timestamp) ==
  LET filter == applyBandpassFilter(ppgFilterBuffer, irValue)
      filteredPPG == filter.value
      newIndex == (ppgBufferIndex + 1) % BP_BUFFER_SIZE
      detection == detectPPGPeak(filteredPPG)
      peakIndex == ppgPeakCount % PEAK_SLOTS
  IN  /\ ppgFilterBuffer' = filter.buffer
      /\ ppgRaw' = Recent(Append(ppgRaw, irValue))
      /\ filterIndex' = filter.index
      /\ ppgBuffer' = [ppgBuffer EXCEPT ![ppgBufferIndex] = filteredPPG]
      /\ ppgBufferIndex' = newIndex
      /\ ppgDet' = detection.det
      /\ IF detection.fired
           THEN /\ ppgPeaks' = [ppgPeaks EXCEPT ![peakIndex] =
                                  [index |-> newIndex, value |-> filteredPPG,
                                   timestamp |-> timestamp]]
                /\ ppgPeakCount' = ppgPeakCount + 1
                /\ ppgPeakLog' = Append(ppgPeakLog, timestamp)
           ELSE UNCHANGED ppgPeakVars
      /\ lastOp' = "addPPGSample"
      /\ UNCHANGED <<clock, calibVars, ecgBuffer, ecgBufferIndex,
                     ecgFilterBuffer, ecgRaw, ecgPeakVars, thresholdVars, adaptiveThresholding,
                     lastValidReading, userVars, ecgDet>>
      /\ NoReturn

\* mutant: the quality gate is not strict
validGate_QualityAtLeast(quality, systolic, diastolic, ptt) ==
  /\ quality >= 70
  /\ FGt(systolic, F(70)) /\ FLt(systolic, F(250))
  /\ FGt(diastolic, F(40)) /\ FLt(diastolic, F(150))
  /\ FGt(ptt, F(50)) /\ FLt(ptt, F(500))

\* mutant: the systolic pressure must exceed 60 instead of 70
validGate_SystolicAbove60(quality, systolic, diastolic, ptt) ==
  /\ quality > 70
  /\ FGt(systolic, F(60)) /\ FLt(systolic, F(250))
  /\ FGt(diastolic, F(40)) /\ FLt(diastolic, F(150))
  /\ FGt(ptt, F(50)) /\ FLt(ptt, F(500))

\* the validity gate of calculateBloodPressure
validGate(quality, systolic, diastolic, ptt) ==
  /\ quality > 70
  /\ FGt(systolic, F(70)) /\ FLt(systolic, F(250))
  /\ FGt(diastolic, F(40)) /\ FLt(diastolic, F(150))
  /\ FGt(ptt, F(50)) /\ FLt(ptt, F(500))

\* mutant: the transit time is not checked before the estimate
BloodPressureReading_PTTUnchecked ==
  LET ptt == calculatePTT
      calibrated == calibrationCount > 0
      rawSystolic == IF calibrated
                       THEN FAdd(FMul(systolicSlope, ptt), systolicIntercept)
                       ELSE FAdd(FMul(<<-6, 5>>, ptt), F(180))
      rawDiastolic == IF calibrated
                        THEN FAdd(FMul(diastolicSlope, ptt), diastolicIntercept)
                        ELSE FAdd(FMul(<<-4, 5>>, ptt), F(120))
      systolic == compensateForGender(compensateForAge(rawSystolic, userAge), userIsMale)
      diastolic == compensateForGender(compensateForAge(rawDiastolic, userAge), userIsMale)
      quality == assessSignalQuality
  IN  IF ecgPeakCount < 3 \/ ppgPeakCount < 3 THEN EmptyReading(clock)
      ELSE [systolic |-> systolic,
            diastolic |-> diastolic,
            meanArterialPressure |-> FAdd(diastolic, FDiv(FSub(systolic, diastolic), F(3))),
            pulseTransitTime |-> ptt,
            pulseWaveVelocity |-> calculatePWV(ptt),
            heartRateVariability |-> calculateHRV,
            validReading |-> validGate(quality, systolic, diastolic, ptt),
            needsCalibration |-> ~calibrated,
            timestamp |-> clock,
            signalQuality |-> quality,
            correlationCoeff |-> calculateCorrelation,
            rhythmRegular |-> checkRhythmRegularity]

\* the reading calculateBloodPressure returns in the current state
BloodPressureReading ==
  LET ptt == calculatePTT
      calibrated == calibrationCount > 0
      rawSystolic == IF calibrated
                       THEN FAdd(FMul(systolicSlope, ptt), systolicIntercept)
                       ELSE FAdd(FMul(<<-6, 5>>, ptt), F(180))
      rawDiastolic == IF calibrated
                        THEN FAdd(FMul(diastolicSlope, ptt), diastolicIntercept)
                        ELSE FAdd(FMul(<<-4, 5>>, ptt), F(120))
      systolic == compensateForGender(compensateForAge(rawSystolic, userAge), userIsMale)
      diastolic == compensateForGender(compensateForAge(rawDiastolic, userAge), userIsMale)
      quality == assessSignalQuality
  IN  IF ecgPeakCount < 3 \/ ppgPeakCount < 3 THEN EmptyReading(clock)
      ELSE IF FLe(ptt, F(0)) THEN EmptyReading(clock)
      ELSE [systolic |-> systolic,
            diastolic |-> diastolic,
            meanArterialPressure |-> FAdd(diastolic, FDiv(FSub(systolic, diastolic), F(3))),
            pulseTransitTime |-> ptt,
            pulseWaveVelocity |-> calculatePWV(ptt),
            heartRateVariability |-> calculateHRV,
            validReading |-> validGate(quality, systolic, diastolic, ptt),
            needsCalibration |-> ~calibrated,
            timestamp |-> clock,
            signalQuality |-> quality,
            correlationCoeff |-> calculateCorrelation,
            rhythmRegular |-> checkRhythmRegularity]

\* mutant: every call stamps the last valid reading
calculateBloodPressure_AlwaysStamps ==
  /\ lastReading' = BloodPressureReading
  /\ lastValidReading' = clock
  /\ lastOp' = "calculateBloodPressure"
  /\ UNCHANGED <<clock, calibVars, sampleVars, ecgPeakVars, ppgPeakVars, thresholdVars,
                 adaptiveThresholding, userVars, ecgDet, ppgDet>>
  /\ calRet' = FALSE

calculateBloodPressure ==
  /\ lastReading' = BloodPressureReading
  /\ lastValidReading' = IF BloodPressureReading.validReading THEN clock
                         ELSE lastValidReading
  /\ lastOp' = "calculateBloodPressure"
  /\ UNCHANGED <<clock, calibVars, sampleVars, ecgPeakVars, ppgPeakVars, thresholdVars,
                 adaptiveThresholding, userVars, ecgDet, ppgDet>>
  /\ calRet' = FALSE

\* mutant: the transit time is not checked
addCalibrationPoint_NoPTTCheck(systolic, diastolic) ==
  LET currentPTT == calculatePTT
      newPoints == [calibrationPoints EXCEPT ![calibrationCount] =
                      [ptt |-> currentPTT, systolic |-> F(systolic),
                       diastolic |-> F(diastolic), timestamp |-> clock]]
      fit == updateCalibration(newPoints, calibrationCount + 1)
  IN  /\ IF calibrationCount >= MAX_CALIBRATION
           THEN /\ calRet' = FALSE
                /\ UNCHANGED calibVars
           ELSE /\ calRet' = TRUE
                /\ calibrationPoints' = newPoints
                /\ calibrationCount' = calibrationCount + 1
                /\ systolicSlope' = fit.systolicSlope
                /\ systolicIntercept' = fit.systolicIntercept
                /\ diastolicSlope' = fit.diastolicSlope
                /\ diastolicIntercept' = fit.diastolicIntercept
      /\ lastOp' = "addCalibrationPoint"
      /\ UNCHANGED <<clock, sampleVars, ecgPeakVars, ppgPeakVars, thresholdVars,
                     adaptiveThresholding, lastValidReading, userVars, ecgDet, ppgDet>>
      /\ lastReading' = NoReading

\* mutant: a full store takes the point in place of its oldest one
addCalibrationPoint_EvictsOldest(systolic, diastolic) ==
  LET currentPTT == calculatePTT
      full == calibrationCount >= MAX_CALIBRATION
      slot == IF full THEN 0 ELSE calibrationCount
      newCount == IF full THEN calibrationCount ELSE calibrationCount + 1
      newPoints == [calibrationPoints EXCEPT ![slot] =
                      [ptt |-> currentPTT, systolic |-> F(systolic),
                       diastolic |-> F(diastolic), timestamp |-> clock]]
      fit == updateCalibration(newPoints, newCount)
  IN  /\ IF FLe(currentPTT, F(0))
           THEN /\ calRet' = FALSE
                /\ UNCHANGED calibVars
           ELSE /\ calRet' = TRUE
                /\ calibrationPoints' = newPoints
                /\ calibrationCount' = newCount
                /\ systolicSlope' = fit.systolicSlope
                /\ systolicIntercept' = fit.systolicIntercept
                /\ diastolicSlope' = fit.diastolicSlope
                /\ diastolicIntercept' = fit.diastolicIntercept
      /\ lastOp' = "addCalibrationPoint"
      /\ UNCHANGED <<clock, sampleVars, ecgPeakVars, ppgPeakVars, thresholdVars,
                     adaptiveThresholding, lastValidReading, userVars, ecgDet, ppgDet>>
      /\ lastReading' = NoReading

addCalibrationPoint(systolic, diastolic) ==
  LET currentPTT == calculatePTT
      newPoints == [calibrationPoints EXCEPT ![calibrationCount] =
                      [ptt |-> currentPTT, systolic |-> F(systolic),
                       diastolic |-> F(diastolic), timestamp |-> clock]]
      fit == updateCalibration(newPoints, calibrationCount + 1)
  IN  /\ IF calibrationCount >= MAX_CALIBRATION \/ FLe(currentPTT, F(0))
           THEN /\ calRet' = FALSE
                /\ UNCHANGED calibVars
           ELSE /\ calRet' = TRUE
                /\ calibrationPoints' = newPoints
                /\ calibrationCount' = calibrationCount + 1
                /\ systolicSlope' = fit.systolicSlope
                /\ systolicIntercept' = fit.systolicIntercept
                /\ diastolicSlope' = fit.diastolicSlope
                /\ diastolicIntercept' = fit.diastolicIntercept
      /\ lastOp' = "addCalibrationPoint"
      /\ UNCHANGED <<clock, sampleVars, ecgPeakVars, ppgPeakVars, thresholdVars,
                     adaptiveThresholding, lastValidReading, userVars, ecgDet, ppgDet>>
      /\ lastReading' = NoReading

setPersonalParameters(age, height, isMale) ==
  LET s1 == IF ~isMale THEN FSub(systolicIntercept, F(5)) ELSE systolicIntercept
  IN  /\ systolicSlope' = IF age > 60 THEN FMul(systolicSlope, <<11, 10>>)
                          ELSE systolicSlope
      /\ diastolicSlope' = IF age > 60 THEN FMul(diastolicSlope, <<21, 20>>)
                           ELSE diastolicSlope
      /\ diastolicIntercept' = IF ~isMale THEN FSub(diastolicIntercept, F(3))
                               ELSE diastolicIntercept
      /\ systolicIntercept' = IF FGt(height, F(180)) THEN FAdd(s1, F(3))
                              ELSE IF FLt(height, F(160)) THEN FSub(s1, F(3))
                              ELSE s1
      /\ passedProfile' = [age |-> age, height |-> height, isMale |-> isMale,
                           passed |-> TRUE]
      /\ lastOp' = "setPersonalParameters"
      /\ UNCHANGED <<clock, calibrationPoints, calibrationCount, sampleVars,
                     ecgPeakVars, ppgPeakVars, thresholdVars, adaptiveThresholding,
                     lastValidReading, userAge, userHeight, userIsMale,
                     ecgDet, ppgDet>>
      /\ NoReturn

setAdaptiveMode(enable) ==
  /\ adaptiveThresholding' = enable
  /\ lastOp' = "setAdaptiveMode"
  /\ UNCHANGED <<clock, calibVars, sampleVars, ecgPeakVars, ppgPeakVars, thresholdVars,
                 lastValidReading, userVars, ecgDet, ppgDet>>
  /\ NoReturn

\* addECGSample on a second BloodPressureMonitor object, as far as it touches
\* this one: detectECGPeak keeps lastValue, lastDerivative, risingEdge and
\* lastPeakTime in function-local statics, one copy for all objects.  The other
\* object has adaptive mode off (adaptThresholds is not called), its threshold
\* is the default and value is the output of its own filter.
otherAddECGSample(value) ==
  /\ ecgDet' = detectPeak(ecgDet, F(value), F(DEFAULT_ECG_THRESHOLD),
                          ECG_REFRACTORY, clock).det
  /\ lastOp' = "other.addECGSample"
  /\ UNCHANGED <<clock, calibVars, sampleVars, ecgPeakVars, ppgPeakVars, thresholdVars,
                 adaptiveThresholding, lastValidReading, userVars, ppgDet>>
  /\ NoReturn

\* millis() advances by d
Tick(d) ==
  /\ clock' = clock + d
  /\ lastOp' = "tick"
  /\ UNCHANGED <<calibVars, sampleVars, ecgPeakVars, ppgPeakVars, thresholdVars,
                 adaptiveThresholding, lastValidReading, userVars, ecgDet, ppgDet>>
  /\ NoReturn

\* ------------------------------------------------------------------------
\* the environment: one heart beat is an ECG and a PPG pulse, sampled
\* alternately (ECG up, PPG up, ECG down, PPG down).  A rhythm gives the
\* rest before a beat, the transit delay between the two downstrokes, the
\* lag between taking a sample and handing it to the engine, and the
\* pressures a reference cuff shows meanwhile.
\* ------------------------------------------------------------------------
MaxBeats == 6
MaxCalls == 2

EcgAmplitude == 20000 * 1
PpgAmplitude == 600000 * 1

Rhythm(rest, delay, lag, systolic, diastolic) ==
  [rest |-> rest, delay |-> delay, lag |-> lag,
   systolic |-> systolic, diastolic |-> diastolic]

Fast == Rhythm(100, 60, 0, 130, 85)
Brisk == Rhythm(310, 60, 0, 125, 82)
Calm == Rhythm(450, 60, 0, 120, 80)
Slow == Rhythm(10000, 60, 0, 115, 78)
Stiff == Rhythm(450, 40, 0, 135, 88)
Edge == Rhythm(450, 50, 0, 135, 88)

RhythmSet == {Fast, Brisk, Calm, Slow, Stiff, Edge}

scheduleVars == <<phase, beats, calls, rhythm, changes, pc>>

ScheduleInit ==
  /\ phase = 0 /\ beats = 0 /\ calls = 0 /\ rhythm = Calm /\ changes = FALSE
  /\ pc = "idle"

Init == clock = 0 /\ EngineInit /\ ScheduleInit

\* the rest before a beat of rhythm r; the rhythm changes at most once, and the
\* timestamps handed to the engine never go back
RestIn(r, maxBeats) ==
  /\ phase = 0 /\ beats < maxBeats
  /\ r = rhythm \/ beats = 0 \/ ~changes
  /\ r.rest + rhythm.lag >= r.lag
  /\ Tick(r.rest)
  /\ rhythm' = r
  /\ changes' = (changes \/ (r # rhythm /\ beats > 0))
  /\ phase' = 1 /\ UNCHANGED <<beats, calls, pc>>

Rest == \E r \in RhythmSet : RestIn(r, MaxBeats)

EcgRise ==
  /\ phase = 1
  /\ addECGSample(EcgAmplitude, clock - rhythm.lag)
  /\ phase' = 2 /\ UNCHANGED <<beats, calls, rhythm, changes, pc>>

PpgRise ==
  /\ phase = 2
  /\ addPPGSample(PpgAmplitude, clock - rhythm.lag)
  /\ phase' = 3 /\ UNCHANGED <<beats, calls, rhythm, changes, pc>>

EcgFall ==
  /\ phase = 3
  /\ addECGSample(-EcgAmplitude, clock - rhythm.lag)
  /\ phase' = 4 /\ UNCHANGED <<beats, calls, rhythm, changes, pc>>

Delay ==
  /\ phase = 4
  /\ Tick(rhythm.delay)
  /\ phase' = 5 /\ UNCHANGED <<beats, calls, rhythm, changes, pc>>

PpgFall ==
  /\ phase = 5
  /\ addPPGSample(-PpgAmplitude, clock - rhythm.lag)
  /\ phase' = 0 /\ beats' = beats + 1 /\ UNCHANGED <<calls, rhythm, changes, pc>>

Query ==
  /\ phase = 0 /\ calls < MaxCalls
  /\ calculateBloodPressure
  /\ calls' = calls + 1 /\ UNCHANGED <<phase, beats, rhythm, changes, pc>>

Reset ==
  /\ phase = 0 /\ calls < MaxCalls
  /\ reset
  /\ calls' = calls + 1 /\ UNCHANGED <<phase, beats, rhythm, changes, pc>>

Next == Rest \/ EcgRise \/ PpgRise \/ EcgFall \/ Delay \/ PpgFall \/ Query \/ Reset

Spec == Init /\ [][Next]_vars

\* ------------------------------------------------------------------------
\* replay: recorded samples are handed to the engine later than they were
\* taken, each with the timestamp of its acquisition
\* ------------------------------------------------------------------------
MaxReplayBeats == 23

Recorded == Rhythm(600, 200, 600, 120, 80)
Batch == Rhythm(600, 40, 600, 120, 80)
Backlog == Rhythm(600, 40, 1090, 120, 80)

\* live sampling of a fast pulse; under Late the millisecond counter steps
\* between the caller's millis() and the one the detector reads
Prompt == Rhythm(241, 60, 0, 120, 80)
Late == Rhythm(241, 60, 1, 120, 80)

ReplaySet == {Recorded, Batch, Backlog, Prompt, Late}

ReplayRest == \E r \in ReplaySet : RestIn(r, MaxReplayBeats)

NextReplay == ReplayRest \/ EcgRise \/ PpgRise \/ EcgFall \/ Delay \/ PpgFall

SpecReplay == Init /\ [][NextReplay]_vars

\* ------------------------------------------------------------------------
\* calibration session: reference cuff readings are entered between beats
\* ------------------------------------------------------------------------
MaxCalBeats == 4
MaxCalCalls == 6

Steady == Rhythm(600, 200, 0, 120, 80)
Relaxed == Rhythm(600, 300, 0, 110, 75)

CalRhythmSet == {Steady, Relaxed}

CalRest == \E r \in CalRhythmSet : RestIn(r, MaxCalBeats)

Calibrate ==
  /\ phase = 0 /\ calls < MaxCalCalls
  /\ addCalibrationPoint(rhythm.systolic, rhythm.diastolic)
  /\ calls' = calls + 1 /\ UNCHANGED <<phase, beats, rhythm, changes, pc>>

CalReset ==
  /\ phase = 0 /\ calls < MaxCalCalls
  /\ reset
  /\ calls' = calls + 1 /\ UNCHANGED <<phase, beats, rhythm, changes, pc>>

CalQuery ==
  /\ phase = 0 /\ calls < MaxCalCalls
  /\ calculateBloodPressure
  /\ calls' = calls + 1 /\ UNCHANGED <<phase, beats, rhythm, changes, pc>>

NextCal ==
  \/ CalRest \/ EcgRise \/ PpgRise \/ EcgFall \/ Delay \/ PpgFall
  \/ Calibrate \/ CalReset \/ CalQuery

SpecCal == Init /\ [][NextCal]_vars

\* ------------------------------------------------------------------------
\* two monitors in one program: samples of a second object arrive between
\* the samples of this one
\* ------------------------------------------------------------------------
MaxPairBeats == 3
MaxOtherSamples == 2

\* filtered values of the other object, below and above its threshold
OtherValueSet == {0, 2000}

PairRest == RestIn(Calm, MaxPairBeats)

OtherSample ==
  /\ calls < MaxOtherSamples
  /\ \E v \in OtherValueSet : otherAddECGSample(v)
  /\ calls' = calls + 1 /\ UNCHANGED <<phase, beats, rhythm, changes, pc>>

NextPair ==
  PairRest \/ EcgRise \/ PpgRise \/ EcgFall \/ Delay \/ PpgFall \/ OtherSample

SpecPair == Init /\ [][NextPair]_vars

\* ------------------------------------------------------------------------
\* two tasks: the sensor task hands the ECG samples over statement by
\* statement while another task queries or resets the monitor in between
\* ------------------------------------------------------------------------
MaxTaskBeats == 3
MaxTaskCalls == 2

TaskRest == pc = "idle" /\ RestIn(Calm, MaxTaskBeats)

\* the raw ECG sample of the schedule: up at phase 1, down at phase 3
TaskSample == IF phase = 1 THEN EcgAmplitude ELSE -EcgAmplitude

TaskEcgDetect ==
  /\ phase \in {1, 3} /\ pc = "idle"
  /\ addECGSample_detect(TaskSample, clock - rhythm.lag)
  /\ pc' = IF ecgPeakLog' # ecgPeakLog THEN "count" ELSE "adapt"
  /\ UNCHANGED <<phase, beats, calls, rhythm, changes>>

TaskEcgCount ==
  /\ pc = "count"
  /\ addECGSample_count
  /\ pc' = "test"
  /\ UNCHANGED <<phase, beats, calls, rhythm, changes>>

TaskEcgTest ==
  /\ pc = "test"
  /\ addECGSample_test
  /\ pc' = IF ecgPeakCount > 1 THEN "rr" ELSE "adapt"
  /\ UNCHANGED <<phase, beats, calls, rhythm, changes>>

TaskEcgRR ==
  /\ pc = "rr"
  /\ addECGSample_rr(clock - rhythm.lag)
  /\ pc' = "adapt"
  /\ UNCHANGED <<phase, beats, calls, rhythm, changes>>

TaskEcgAdapt ==
  /\ pc = "adapt"
  /\ addECGSample_adapt
  /\ pc' = "idle" /\ phase' = phase + 1
  /\ UNCHANGED <<beats, calls, rhythm, changes>>

TaskPpgRise == pc = "idle" /\ PpgRise

TaskDelay == pc = "idle" /\ Delay

TaskPpgFall == pc = "idle" /\ PpgFall

TaskQuery ==
  /\ calls < MaxTaskCalls
  /\ calculateBloodPressure
  /\ calls' = calls + 1 /\ UNCHANGED <<phase, beats, rhythm, changes, pc>>

TaskReset ==
  /\ calls < MaxTaskCalls
  /\ reset
  /\ calls' = calls + 1 /\ UNCHANGED <<phase, beats, rhythm, changes, pc>>

NextTasks ==
  \/ TaskRest \/ TaskEcgDetect \/ TaskEcgCount \/ TaskEcgTest \/ TaskEcgRR
  \/ TaskEcgAdapt
  \/ TaskPpgRise \/ TaskDelay \/ TaskPpgFall
  \/ TaskQuery \/ TaskReset

SpecTasks == Init /\ [][NextTasks]_vars

\* ------------------------------------------------------------------------
\* configuration calls between the samples: setAdaptiveMode and
\* setPersonalParameters
\* ------------------------------------------------------------------------
MaxConfigBeats == 4
MaxConfigCalls == 2

Senior == [age |-> 65, height |-> F(185), isMale |-> FALSE]
Junior == [age |-> 25, height |-> F(155), isMale |-> TRUE]
ProfileSet == {Senior, Junior}

ConfigRest == \E r \in {Calm, Slow} : RestIn(r, MaxConfigBeats)

SetMode ==
  /\ calls < MaxConfigCalls
  /\ \E enable \in BOOLEAN : setAdaptiveMode(enable)
  /\ calls' = calls + 1 /\ UNCHANGED <<phase, beats, rhythm, changes, pc>>

SetProfile ==
  /\ calls < MaxConfigCalls
  /\ \E p \in ProfileSet : setPersonalParameters(p.age, p.height, p.isMale)
  /\ calls' = calls + 1 /\ UNCHANGED <<phase, beats, rhythm, changes, pc>>

ConfigQuery ==
  /\ calls < MaxConfigCalls
  /\ calculateBloodPressure
  /\ calls' = calls + 1 /\ UNCHANGED <<phase, beats, rhythm, changes, pc>>

NextConfig ==
  \/ ConfigRest \/ EcgRise \/ PpgRise \/ EcgFall \/ Delay \/ PpgFall
  \/ SetMode \/ SetProfile \/ ConfigQuery

SpecConfig == Init /\ [][NextConfig]_vars

\* ------------------------------------------------------------------------
\* a long recording: enough beats for the R-R store of 50 to wrap
\* ------------------------------------------------------------------------
MaxLongBeats == 54

Quick   == Rhythm(250, 60, 0, 125, 82)
Languid == Rhythm(740, 60, 0, 115, 78)

LongRest == \E r \in {Quick, Languid} : RestIn(r, MaxLongBeats)

NextLong == LongRest \/ EcgRise \/ PpgRise \/ EcgFall \/ Delay \/ PpgFall

SpecLong == Init /\ [][NextLong]_vars

\* ------------------------------------------------------------------------
\* calibration and the personal profile: addCalibrationPoint,
\* setPersonalParameters and calculateBloodPressure between the beats
\* ------------------------------------------------------------------------
MaxProfileBeats == 4
MaxProfileCalls == 4

ProfileRest == \E r \in CalRhythmSet : RestIn(r, MaxProfileBeats)

ProfileCalibrate ==
  /\ phase = 0 /\ calls < MaxProfileCalls
  /\ addCalibrationPoint(rhythm.systolic, rhythm.diastolic)
  /\ calls' = calls + 1 /\ UNCHANGED <<phase, beats, rhythm, changes, pc>>

ProfileUpdate ==
  /\ phase = 0 /\ calls < MaxProfileCalls
  /\ \E p \in ProfileSet : setPersonalParameters(p.age, p.height, p.isMale)
  /\ calls' = calls + 1 /\ UNCHANGED <<phase, beats, rhythm, changes, pc>>

ProfileQuery ==
  /\ phase = 0 /\ calls < MaxProfileCalls
  /\ calculateBloodPressure
  /\ calls' = calls + 1 /\ UNCHANGED <<phase, beats, rhythm, changes, pc>>

NextProfile ==
  \/ ProfileRest \/ EcgRise \/ PpgRise \/ EcgFall \/ Delay \/ PpgFall
  \/ ProfileCalibrate \/ ProfileUpdate \/ ProfileQuery

SpecProfile == Init /\ [][NextProfile]_vars

\* ------------------------------------------------------------------------
\* a slow recording: more than 10 s pass before a first reading is asked for
\* ------------------------------------------------------------------------
MaxStaleBeats == 6
MaxStaleCalls == 2

Sparse == Rhythm(1900, 60, 0, 120, 80)

StaleRest == \E r \in {Calm, Sparse} : RestIn(r, MaxStaleBeats)

StaleQuery ==
  /\ phase = 0 /\ calls < MaxStaleCalls
  /\ calculateBloodPressure
  /\ calls' = calls + 1 /\ UNCHANGED <<phase, beats, rhythm, changes, pc>>

NextStale ==
  \/ StaleRest \/ EcgRise \/ PpgRise \/ EcgFall \/ Delay \/ PpgFall
  \/ StaleQuery

SpecStale == Init /\ [][NextStale]_vars

\* ------------------------------------------------------------------------
\* a dozen beats of changing pace with reset() and calculateBloodPressure
\* between them, one call after the other
\* ------------------------------------------------------------------------
MaxRestartBeats == 13
MaxRestartCalls == 1

RestartRest == \E r \in {Quick, Languid} : RestIn(r, MaxRestartBeats)

RestartReset ==
  /\ phase = 0 /\ calls < MaxRestartCalls
  /\ reset
  /\ calls' = calls + 1 /\ UNCHANGED <<phase, beats, rhythm, changes, pc>>

RestartQuery ==
  /\ phase = 0 /\ calls < MaxRestartCalls
  /\ calculateBloodPressure
  /\ calls' = calls + 1 /\ UNCHANGED <<phase, beats, rhythm, changes, pc>>

NextRestart ==
  \/ RestartRest \/ EcgRise \/ PpgRise \/ EcgFall \/ Delay \/ PpgFall
  \/ RestartReset \/ RestartQuery

SpecRestart == Init /\ [][NextRestart]_vars

\* ------------------------------------------------------------------------
\* the default model: beats whose transit time lies on either side of the
\* largest one the default relationship accepts, with queries and
\* calibration points between them
\* ------------------------------------------------------------------------
MaxDefaultBeats == 6
MaxDefaultCalls == 2

Near   == Rhythm(600, 90, 0, 120, 80)
Beyond == Rhythm(600, 95, 0, 120, 80)

DefaultRest == \E r \in {Near, Beyond, Steady} : RestIn(r, MaxDefaultBeats)

DefaultCalibrate ==
  /\ phase = 0 /\ calls < MaxDefaultCalls
  /\ addCalibrationPoint(rhythm.systolic, rhythm.diastolic)
  /\ calls' = calls + 1 /\ UNCHANGED <<phase, beats, rhythm, changes, pc>>

DefaultQuery ==
  /\ phase = 0 /\ calls < MaxDefaultCalls
  /\ calculateBloodPressure
  /\ calls' = calls + 1 /\ UNCHANGED <<phase, beats, rhythm, changes, pc>>

NextDefault ==
  \/ DefaultRest \/ EcgRise \/ PpgRise \/ EcgFall \/ Delay \/ PpgFall
  \/ DefaultCalibrate \/ DefaultQuery

SpecDefault == Init /\ [][NextDefault]_vars

\* ------------------------------------------------------------------------
\* properties
\* ------------------------------------------------------------------------
Queried == lastOp = "calculateBloodPressure"

\* the reading went past the two early returns
EstimateReached(r) == r.pulseTransitTime # F(0)

\* C1: the signal quality computed in any reachable state, and the one reported
\* in a returned reading, lies in 0 .. 100
C1_QualityBound ==
  /\ assessSignalQuality >= 0 /\ assessSignalQuality <= 100
  /\ Queried => lastReading.signalQuality >= 0 /\ lastReading.signalQuality <= 100

\* a reading that reached the estimate and carries the full stack of penalties
\* a query can see (few peaks, irregular rhythm, stale)
C1_Witness ==
  /\ Queried /\ EstimateReached(lastReading)
  /\ lastReading.signalQuality = 25

\* C2: isReadyForMeasurement is false whenever a channel has fewer than 3 peaks
C2_ReadinessGate ==
  (ecgPeakCount < 3 \/ ppgPeakCount < 3) => ~isReadyForMeasurement

\* one channel well supplied with peaks, the other short of three
C2_Witness == ecgPeakCount >= 5 /\ ppgPeakCount < 3 /\ ppgPeakCount > 0

\* every variable of the engine
engineVars == <<calibVars, sampleVars, ecgPeaks, ecgPeakCount, rrIntervals, rrCount,
                ppgPeaks, ppgPeakCount, thresholdVars, adaptiveThresholding,
                lastValidReading, userVars, ecgDet, ppgDet>>

\* C6: after reset both peak counts are 0, isReadyForMeasurement is false and
\* the reading of a query is not valid; a query made right after reset returns
\* valid = false; a second reset changes nothing
C6_ResetIdempotent ==
  [][/\ lastOp' = "reset" =>
          /\ ecgPeakCount' = 0 /\ ppgPeakCount' = 0
          /\ ~isReadyForMeasurement'
          /\ ~BloodPressureReading'.validReading
     /\ (lastOp = "reset" /\ lastOp' = "calculateBloodPressure") =>
          ~lastReading'.validReading
     /\ (lastOp = "reset" /\ lastOp' = "reset") => UNCHANGED engineVars]_vars

\* reset has run in a state that had five peaks on each channel
C6_Witness ==
  /\ lastOp = "reset"
  /\ ecgPeaks[4].timestamp > 0 /\ ppgPeaks[4].timestamp > 0

\* pressures and transit time strictly inside their validity ranges
OtherGatesInside(r) ==
  /\ FGt(r.systolic, F(70)) /\ FLt(r.systolic, F(250))
  /\ FGt(r.diastolic, F(40)) /\ FLt(r.diastolic, F(150))
  /\ FGt(r.pulseTransitTime, F(50)) /\ FLt(r.pulseTransitTime, F(500))

\* C7: no reading with signalQuality <= 70 is valid (a reading at exactly 70 is
\* not), and a reading above 70 whose other gates are satisfied is valid
C7_QualityGateStrict ==
  Queried =>
    /\ lastReading.signalQuality <= 70 => ~lastReading.validReading
    /\ (/\ EstimateReached(lastReading)
        /\ lastReading.signalQuality > 70
        /\ OtherGatesInside(lastReading)) => lastReading.validReading

\* a reading at exactly 70 whose pressures and transit time are in range
C7_Witness ==
  /\ Queried /\ EstimateReached(lastReading)
  /\ lastReading.signalQuality = 70
  /\ OtherGatesInside(lastReading)
  /\ ~lastReading.validReading

\* C3: the claim as stated: any two consecutively recorded peaks of a channel
\* have sample timestamps more than the refractory interval apart (ECG 300 ms,
\* PPG 400 ms), so that of two ECG candidates 150 ms apart only one is recorded
C3_RefractoryOnTimestamps ==
  /\ \A i \in 1 .. Len(ecgPeakLog) - 1 :
        ecgPeakLog[i + 1] - ecgPeakLog[i] > ECG_REFRACTORY
  /\ \A i \in 1 .. Len(ppgPeakLog) - 1 :
        ppgPeakLog[i + 1] - ppgPeakLog[i] > PPG_REFRACTORY

\* the most recent up to ten entries of a peak history
RecentPeaks(log) == SubSeq(log, Max(1, Len(log) - 9), Len(log))

\* the places in the PPG window of the peaks 50 .. 400 ms after ecgTime
ReferenceMatches(ecgTime) ==
  {k \in 1 .. Len(RecentPeaks(ppgPeakLog)) :
     /\ RecentPeaks(ppgPeakLog)[k] - ecgTime >= 50
     /\ RecentPeaks(ppgPeakLog)[k] - ecgTime <= 400}

ReferenceFirstDelta(ecgTime) ==
  LET k == CHOOSE m \in ReferenceMatches(ecgTime) :
             \A n \in ReferenceMatches(ecgTime) : m <= n
  IN  RecentPeaks(ppgPeakLog)[k] - ecgTime

RECURSIVE ReferenceDeltas(_)
\* the deltas of the first n ECG peaks of the window, oldest first
ReferenceDeltas(n) ==
  IF n = 0 THEN <<>>
  ELSE LET ecgTime == RecentPeaks(ecgPeakLog)[n]
       IN  IF ReferenceMatches(ecgTime) = {} THEN ReferenceDeltas(n - 1)
           ELSE Append(ReferenceDeltas(n - 1), ReferenceFirstDelta(ecgTime))

RECURSIVE SeqSum(_)
SeqSum(q) == IF q = <<>> THEN 0 ELSE q[1] + SeqSum(Tail(q))

AllDeltas == ReferenceDeltas(Len(RecentPeaks(ecgPeakLog)))

\* the reference matcher over the history of recorded peaks
ReferencePTT ==
  IF Len(ecgPeakLog) < 2 \/ Len(ppgPeakLog) < 2 \/ AllDeltas = <<>> THEN F(-1)
  ELSE Norm(SeqSum(AllDeltas), Len(AllDeltas))

\* C4: calculatePTT equals the reference matcher (first match of each of the
\* last ten ECG peaks among the last ten PPG peaks, mean of the deltas); it is
\* the sentinel -1 exactly when a channel has fewer than 2 peaks or no pair
\* matches; ECG peaks at 0, 800, 1600, 2400 and PPG peaks at 200, 1000, 1800,
\* 2600 give exactly 200
C4_PTTMatchesReference ==
  /\ calculatePTT = ReferencePTT
  /\ calculatePTT = F(-1) <=>
        (Len(ecgPeakLog) < 2 \/ Len(ppgPeakLog) < 2 \/ AllDeltas = <<>>)
  /\ (/\ ecgPeakLog = <<0, 800, 1600, 2400>>
      /\ ppgPeakLog = <<200, 1000, 1800, 2600>>) => calculatePTT = F(200)

\* the peak store of the example, four peaks on each channel
C4_Witness ==
  /\ ecgPeakLog = <<0, 800, 1600, 2400>>
  /\ ppgPeakLog = <<200, 1000, 1800, 2600>>
  /\ ecgPeakCount = 4 /\ ppgPeakCount = 4
  /\ calculatePTT = F(200)

\* the line through (x1, y1) and (x2, y2)
LineThrough(x1, y1, x2, y2) ==
  LET slope == FDiv(FSub(y2, y1), FSub(x2, x1))
  IN  [slope |-> slope, intercept |-> FSub(y1, FMul(slope, x1))]

Calibrated == lastOp = "addCalibrationPoint" /\ calRet

\* C5: after the second calibration point, of a transit time other than the
\* first, both fitted lines pass through both points: slope = (y2-y1)/(x2-x1)
\* and intercept = y1 - slope*x1; the points (200, 120, 80) and (250, 110, 75)
\* give systolicSlope = -0.2 and systolicIntercept = 160
C5_TwoPointFitExact ==
  LET p == calibrationPoints[0]
      q == calibrationPoints[1]
      sys == LineThrough(p.ptt, p.systolic, q.ptt, q.systolic)
      dia == LineThrough(p.ptt, p.diastolic, q.ptt, q.diastolic)
  IN  (Calibrated /\ calibrationCount = 2 /\ p.ptt # q.ptt) =>
        /\ systolicSlope = sys.slope /\ systolicIntercept = sys.intercept
        /\ diastolicSlope = dia.slope /\ diastolicIntercept = dia.intercept
        /\ (/\ p.ptt = F(200) /\ p.systolic = F(120) /\ p.diastolic = F(80)
            /\ q.ptt = F(250) /\ q.systolic = F(110) /\ q.diastolic = F(75)) =>
              systolicSlope = <<-1, 5>> /\ systolicIntercept = F(160)

\* the two points of the example have just been fitted
C5_Witness ==
  /\ Calibrated /\ calibrationCount = 2
  /\ calibrationPoints[0].ptt = F(200) /\ calibrationPoints[0].systolic = F(120)
  /\ calibrationPoints[0].diastolic = F(80)
  /\ calibrationPoints[1].ptt = F(250) /\ calibrationPoints[1].systolic = F(110)
  /\ calibrationPoints[1].diastolic = F(75)
  /\ systolicSlope = <<-1, 5>> /\ systolicIntercept = F(160)

\* C8: with 5 points stored addCalibrationPoint returns false and leaves the
\* count, the points and the four coefficients unchanged; calibrationCount is
\* in 0 .. 5 in every reachable state
C8_CalibrationStoreBound ==
  /\ calibrationCount \in 0 .. MAX_CALIBRATION
  /\ [][/\ (lastOp' = "addCalibrationPoint" /\ calibrationCount = MAX_CALIBRATION) =>
             ~calRet' /\ UNCHANGED calibVars
        /\ calibrationCount' \in 0 .. MAX_CALIBRATION]_vars

\* a sixth point was refused although the transit time was valid
C8_Witness ==
  /\ lastOp = "addCalibrationPoint" /\ ~calRet
  /\ calibrationCount = MAX_CALIBRATION
  /\ calculatePTT # F(-1)

\* C9: with an invalid transit time addCalibrationPoint returns false and
\* leaves the count, the points and the coefficients unchanged; with a valid
\* one and fewer than 5 points stored it returns true, writes exactly one
\* point, holding the current transit time and the given pressures, and the
\* count grows by exactly 1
C9_CalibrationPointAdded ==
  [][lastOp' = "addCalibrationPoint" =>
       /\ calculatePTT = F(-1) => ~calRet' /\ UNCHANGED calibVars
       /\ (calculatePTT # F(-1) /\ calibrationCount < MAX_CALIBRATION) =>
            /\ calRet'
            /\ calibrationCount' = calibrationCount + 1
            /\ \A i \in 0 .. MAX_CALIBRATION - 1 :
                 i # calibrationCount => calibrationPoints'[i] = calibrationPoints[i]
            /\ calibrationPoints'[calibrationCount].ptt = calculatePTT
            /\ calibrationPoints'[calibrationCount].systolic = F(rhythm.systolic)
            /\ calibrationPoints'[calibrationCount].diastolic = F(rhythm.diastolic)]_vars

\* a point was refused for want of a transit time, the store being neither
\* empty nor full
C9_Witness ==
  /\ lastOp = "addCalibrationPoint" /\ ~calRet
  /\ calculatePTT = F(-1)
  /\ calibrationCount > 0 /\ calibrationCount < MAX_CALIBRATION

\* the first n stored points all have the transit time of the first
SamePTT(points, n) == \A i \in 0 .. n - 1 : points[i].ptt = points[0].ptt

\* C10: the claim as stated: a re-fit over 2 or more points that all have the
\* same transit time keeps the previous slopes and intercepts, and the
\* coefficients never become NaN or infinite
C10_DegenerateFitKeepsModel ==
  /\ IsFinite(systolicSlope) /\ IsFinite(systolicIntercept)
  /\ IsFinite(diastolicSlope) /\ IsFinite(diastolicIntercept)
  /\ [][(/\ lastOp' = "addCalibrationPoint" /\ calRet'
         /\ calibrationCount' = calibrationCount + 1
         /\ calibrationCount' >= 2
         /\ SamePTT(calibrationPoints', calibrationCount')) =>
           /\ UNCHANGED <<systolicSlope, systolicIntercept,
                          diastolicSlope, diastolicIntercept>>
           /\ IsFinite(systolicSlope') /\ IsFinite(systolicIntercept')
           /\ IsFinite(diastolicSlope') /\ IsFinite(diastolicIntercept')]_vars

\* C11: with fewer than 3 peaks on a channel, or with no valid transit time,
\* calculateBloodPressure returns a reading that is not valid, whose numeric
\* fields are all 0 and whose timestamp is the time of the call, and the
\* call changes nothing of the engine
C11_EmptyReading ==
  [][(/\ lastOp' = "calculateBloodPressure"
      /\ (ecgPeakCount < 3 \/ ppgPeakCount < 3 \/ calculatePTT = F(-1))) =>
        /\ ~lastReading'.validReading
        /\ lastReading'.systolic = F(0) /\ lastReading'.diastolic = F(0)
        /\ lastReading'.meanArterialPressure = F(0)
        /\ lastReading'.pulseTransitTime = F(0)
        /\ lastReading'.pulseWaveVelocity = F(0)
        /\ lastReading'.heartRateVariability = [sqrtOf |-> F(0)]
        /\ lastReading'.signalQuality = 0 /\ lastReading'.correlationCoeff = 0
        /\ lastReading'.timestamp = clock
        /\ UNCHANGED engineVars]_vars

\* a query over three or more peaks per channel of which no pair matches
C11_Witness ==
  /\ Queried /\ ecgPeakCount >= 3 /\ ppgPeakCount >= 3
  /\ calculatePTT = F(-1)
  /\ ~lastReading.validReading /\ lastReading.timestamp = clock /\ clock > 0

\* C12: the claim as stated: in every reading calculateBloodPressure returns,
\* needsCalibration is true exactly when no calibration point is stored
C12_NeedsCalibrationIffUncalibrated ==
  Queried => (lastReading.needsCalibration <=> calibrationCount = 0)

\* C13: the claim as stated: a reading that reached the estimate is valid
\* exactly when quality > 70, 70 <= systolic <= 250, 40 <= diastolic <= 150
\* and 50 <= transit time <= 500, the ranges being closed
C13_ClosedValidityRanges ==
  (Queried /\ EstimateReached(lastReading)) =>
    (lastReading.validReading <=>
       /\ lastReading.signalQuality > 70
       /\ FLe(F(70), lastReading.systolic) /\ FLe(lastReading.systolic, F(250))
       /\ FLe(F(40), lastReading.diastolic) /\ FLe(lastReading.diastolic, F(150))
       /\ FLe(F(50), lastReading.pulseTransitTime)
       /\ FLe(lastReading.pulseTransitTime, F(500)))

\* whether this object records a peak when handed the raw ECG sample next,
\* the detector statics being det
WouldRecord(det, raw) ==
  detectPeak(det, applyBandpassFilter(ecgFilterBuffer, raw).value,
             ecgThreshold, ECG_REFRACTORY, clock).fired

\* C14: the claim as stated: the peaks this object records are the same
\* whether or not an operation on another object came in between: after a
\* sample of the other object, the next sample of this one records a peak
\* exactly if it would have without
C14_InstancesIndependent ==
  [][lastOp' = "other.addECGSample" =>
       \A raw \in {EcgAmplitude, -EcgAmplitude} :
         WouldRecord(ecgDet', raw) <=> WouldRecord(ecgDet, raw)]_vars

\* What calculateBloodPressure reads of the ECG peak store: the peak count,
\* the timestamps of the last ten counted peaks, and the R-R intervals.
PeakStore(peaks, count, rr, rrc) ==
  [ecgPeakCount |-> count,
   recent |-> [i \in Max(0, count - 10)..(count - 1) |->
                 peaks[i % PEAK_SLOTS].timestamp],
   rrCount |-> rrc,
   rrIntervals |-> [i \in 0..(Min(rrc, RR_SLOTS) - 1) |-> rr[i]]]

StoreRead == PeakStore(ecgPeaks, ecgPeakCount, rrIntervals, rrCount)

\* the store as it was when the addECGSample call in progress began
StoreBeforeCall ==
  PeakStore(ecgPeaks,
            IF pc \in {"test", "rr"} THEN ecgPeakCount - 1 ELSE ecgPeakCount,
            rrIntervals, rrCount)

\* the store as it will be when the addECGSample call in progress returns
StoreAfterCall ==
  IF pc \in {"count", "test", "rr"}
    THEN LET n == IF pc = "count" THEN ecgPeakCount + 1 ELSE ecgPeakCount
             rrInterval == USub(ecgPeaks[(n - 1) % PEAK_SLOTS].timestamp,
                                ecgPeaks[(n - 2) % PEAK_SLOTS].timestamp)
         IN  IF n > 1 /\ rrInterval > 300 /\ rrInterval < 2000
               THEN PeakStore(ecgPeaks, n,
                              [rrIntervals EXCEPT ![rrCount % RR_SLOTS] = rrInterval],
                              rrCount + 1)
               ELSE PeakStore(ecgPeaks, n, rrIntervals, rrCount)
    ELSE StoreRead

\* C15: sample ingestion and calculateBloodPressure exclude each other: a
\* calculateBloodPressure that runs while an addECGSample call is in progress
\* reads the peak store either as it was before that call or as it is after
\* it, never a partially updated store.
C15_IngestionExcludesQuery ==
  [][(lastOp' = "calculateBloodPressure" /\ pc # "idle")
       => StoreRead \in {StoreBeforeCall, StoreAfterCall}]_vars

\* C16: reset is atomic with respect to a concurrent ingestion: whenever no
\* call is in progress, every peak counted by ecgPeakCount was written to its
\* slot after the last reset took effect.
C16_ResetAtomic ==
  pc = "idle" =>
    /\ ecgPeakCount = Len(ecgPeakLog)
    /\ \A i \in Max(0, ecgPeakCount - PEAK_SLOTS)..(ecgPeakCount - 1) :
         ecgPeaks[i % PEAK_SLOTS].timestamp = ecgPeakLog[i + 1]

\* C17: isReadyForMeasurement is true exactly when at least 3 ECG peaks and
\* at least 3 PPG peaks are held and the signal quality is above 60.
C17_ReadyFromThreePeaks ==
  isReadyForMeasurement <=>
    (ecgPeakCount >= 3 /\ ppgPeakCount >= 3 /\ assessSignalQuality > 60)

\* C18: in every state with adaptive mode disabled the two detection
\* thresholds equal their fixed defaults, 1500 and 50000, and no ingestion
\* call made with adaptive mode disabled changes them.
C18_FixedThresholdsWhenDisabled ==
  [][/\ ~adaptiveThresholding' =>
          /\ ecgThreshold' = F(DEFAULT_ECG_THRESHOLD)
          /\ ppgThreshold' = F(DEFAULT_PPG_THRESHOLD)
     /\ (~adaptiveThresholding /\ lastOp' \in {"addECGSample", "addPPGSample"}) =>
          UNCHANGED <<ecgThreshold, ppgThreshold>>]_vars

\* C19: between any two changes of a detection threshold at least 5000 ms
\* elapse, however many samples are ingested in between.
C19_ThresholdCadence ==
  \A i \in 1..(Len(thresholdLog) - 1) :
    thresholdLog[i + 1] - thresholdLog[i] >= ADAPT_PERIOD

\* two threshold changes, with samples ingested between them that changed
\* nothing
C19_Witness ==
  /\ Len(thresholdLog) >= 2
  /\ lastOp \in {"addECGSample", "addPPGSample"}
  /\ clock > thresholdLog[Len(thresholdLog)]
  /\ clock - thresholdLog[Len(thresholdLog)] < ADAPT_PERIOD

\* C20: once setPersonalParameters(age, height, isMale) was called, every
\* reading that reaches the estimate has systolic and diastolic multiplied by
\* the age factor 1 + (age - 30) * 0.005 and the gender factor (1.02 male,
\* 1.0 female) of the values passed, and its pulseWaveVelocity is computed
\* from the height passed.
C20_ProfileApplied ==
  (Queried /\ EstimateReached(lastReading) /\ passedProfile.passed) =>
    LET ptt == lastReading.pulseTransitTime
        calibrated == calibrationCount > 0
        rawSystolic == IF calibrated
                         THEN FAdd(FMul(systolicSlope, ptt), systolicIntercept)
                         ELSE FAdd(FMul(<<-6, 5>>, ptt), F(180))
        rawDiastolic == IF calibrated
                          THEN FAdd(FMul(diastolicSlope, ptt), diastolicIntercept)
                          ELSE FAdd(FMul(<<-4, 5>>, ptt), F(120))
        ageFactor == FAdd(F(1), FMul(F(passedProfile.age - 30), <<1, 200>>))
        genderFactor == IF passedProfile.isMale THEN <<51, 50>> ELSE F(1)
        pathLength == FDiv(FMul(passedProfile.height, <<2, 5>>), F(100))
    IN  /\ lastReading.systolic = FMul(FMul(rawSystolic, ageFactor), genderFactor)
        /\ lastReading.diastolic = FMul(FMul(rawDiastolic, ageFactor), genderFactor)
        /\ lastReading.pulseWaveVelocity = FDiv(pathLength, FDiv(ptt, F(1000)))

\* the mean of a channel's own last FILTER_SIZE raw values, zeros standing
\* for the samples not yet received
OwnMean(raw) == Norm(SeqSum(raw), FILTER_SIZE)

\* C21: for every interleaving of addECGSample and addPPGSample the filtered
\* value produced for a new sample is the mean of that channel's own last 10
\* raw values, whatever number of samples the other channel received.
C21_FilterPerChannel ==
  [][/\ ecgBufferIndex' # ecgBufferIndex /\ lastOp' = "addECGSample"
          => ecgBuffer'[ecgBufferIndex] = OwnMean(ecgRaw')
     /\ ppgBufferIndex' # ppgBufferIndex /\ lastOp' = "addPPGSample"
          => ppgBuffer'[ppgBufferIndex] = OwnMean(ppgRaw')]_vars

\* One sample seen by a detector: det and after are its state before and
\* after the sample, value the filtered sample, recorded whether a peak was
\* stored for it and countKept whether the peak count stayed as it was.
DetectorStepOK(det, after, value, threshold, recorded, countKept) ==
  LET derivative == FSub(value, det.lastValue)
      turnsDown == FLt(derivative, F(0)) /\ FLe(F(0), det.lastDerivative)
      turnsUp == FGt(derivative, F(0)) /\ FLe(det.lastDerivative, F(0))
  IN  /\ recorded => (det.risingEdge /\ turnsDown)
      /\ (after.risingEdge /\ ~det.risingEdge) => (FGt(value, threshold) /\ turnsUp)
      /\ (det.risingEdge /\ turnsDown) => ~after.risingEdge
      /\ (det.risingEdge /\ turnsDown /\ ~recorded) =>
           (countKept /\ after.lastPeakTime = det.lastPeakTime)

\* C22: per channel, a peak is recorded only on a sample whose derivative is
\* negative after a non-negative one while the detector is rising; rising is
\* entered only on a sample above the threshold whose derivative turned from
\* non-positive to positive; after the downward turn the detector is no
\* longer rising, and a discarded candidate changes neither the peak count
\* nor the last-peak time.
C22_DetectorStateMachine ==
  [][/\ (lastOp' = "addECGSample" /\ ecgBufferIndex' # ecgBufferIndex) =>
          DetectorStepOK(ecgDet, ecgDet', ecgBuffer'[ecgBufferIndex], ecgThreshold,
                         ecgPeakLog' # ecgPeakLog, ecgPeakCount' = ecgPeakCount)
     /\ (lastOp' = "addPPGSample" /\ ppgBufferIndex' # ppgBufferIndex) =>
          DetectorStepOK(ppgDet, ppgDet', ppgBuffer'[ppgBufferIndex], ppgThreshold,
                         ppgPeakLog' # ppgPeakLog, ppgPeakCount' = ppgPeakCount)]_vars

\* a candidate of the ECG channel was discarded 160 ms after a recorded peak:
\* the sample turned down from a rise above the threshold, the rising flag is
\* cleared and the last-peak time is the one of the earlier peak
C22_Witness ==
  /\ lastOp = "addECGSample" /\ phase = 4
  /\ ecgPeakCount >= 1
  /\ ecgDet.lastPeakTime = ecgPeakLog[Len(ecgPeakLog)]
  /\ clock > ecgDet.lastPeakTime /\ clock - ecgDet.lastPeakTime <= ECG_REFRACTORY
  /\ FLt(ecgDet.lastDerivative, F(0)) /\ ~ecgDet.risingEdge

\* the peaks recorded since the last reset (log) are the content of the ring:
\* the k-th at slot (k - 1) mod 20, for the most recent min(n, 20) of them
RingHolds(peaks, count, log) ==
  /\ count = Len(log)
  /\ \A k \in Max(1, count - (PEAK_SLOTS - 1))..count :
       peaks[(k - 1) % PEAK_SLOTS].timestamp = log[k]

\* a step that records a peak writes the slot of the oldest peak only
OneSlotWritten(peaks, after, count) ==
  \A i \in 0..(PEAK_SLOTS - 1) : i # count % PEAK_SLOTS => after[i] = peaks[i]

\* C23: per channel, after n peaks were recorded since the last reset the
\* 20-slot store holds exactly the most recent min(n, 20) peaks, the k-th at
\* slot (k - 1) mod 20, and a new peak overwrites only the oldest slot.
C23_PeakRing ==
  [][/\ RingHolds(ecgPeaks', ecgPeakCount', ecgPeakLog')
     /\ RingHolds(ppgPeaks', ppgPeakCount', ppgPeakLog')
     /\ OneSlotWritten(ecgPeaks, ecgPeaks', ecgPeakCount)
     /\ OneSlotWritten(ppgPeaks, ppgPeaks', ppgPeakCount)]_vars

\* both rings have wrapped: more than 20 peaks per channel, the newest PPG
\* peak in a slot that held an older one
C23_Witness ==
  /\ ecgPeakCount > PEAK_SLOTS /\ ppgPeakCount > PEAK_SLOTS
  /\ ppgPeaks[(ppgPeakCount - 1) % PEAK_SLOTS].timestamp = ppgPeakLog[ppgPeakCount]

\* the last m R-R intervals recorded, oldest first
LastIntervals(m) == SubSeq(rrLog, Len(rrLog) - m + 1, Len(rrLog))

RECURSIVE SquaredSteps(_, _, _)
\* sum of (q[i] - q[i-1])^2 for i in lo+1 .. hi
SquaredSteps(q, lo, hi) ==
  IF hi <= lo THEN 0
  ELSE IF hi = lo + 1 THEN (q[hi] - q[lo]) * (q[hi] - q[lo])
  ELSE LET mid == (lo + hi) \div 2
       IN  SquaredSteps(q, lo, mid) + SquaredSteps(q, mid, hi)

\* the square of the RMSSD of a sequence of two or more intervals
MeanSquaredStep(q) == Norm(SquaredSteps(q, 1, Len(q)), Len(q) - 1)

\* C24: calculateHRV is 0 with fewer than 10 R-R intervals recorded, and
\* otherwise the RMSSD of the successive differences of the last
\* min(50, recorded) intervals in the order of their recording, also after
\* the R-R store has wrapped.
C24_HRVChronological ==
  calculateHRV =
    [sqrtOf |-> IF Len(rrLog) < 10 THEN F(0)
                ELSE MeanSquaredStep(LastIntervals(Min(RR_SLOTS, Len(rrLog))))]

RECURSIVE SquaredDeviations(_, _)
\* sum of (q[i] - mean)^2 over the sequence q
SquaredDeviations(q, mean) ==
  IF q = <<>> THEN F(0)
  ELSE LET diff == FSub(F(q[1]), mean)
       IN  FAdd(FMul(diff, diff), SquaredDeviations(Tail(q), mean))

\* the standard deviation of the intervals q is below 0.2 times their mean
\* (compared on the squares)
RegularOver(q) ==
  LET mean == Norm(SeqSum(q), Len(q))
      variance == FDiv(SquaredDeviations(q, mean), F(Len(q)))
      limit == FMul(mean, <<1, 5>>)
  IN  FGt(limit, F(0)) /\ FLt(variance, FMul(limit, limit))

\* C25: checkRhythmRegularity reports irregular with fewer than 5 R-R
\* intervals recorded, and otherwise regular exactly when the standard
\* deviation of the up to 10 most recently recorded intervals is below 0.2
\* times their mean.
C25_RegularityOfRecent ==
  checkRhythmRegularity <=>
    (Len(rrLog) >= 5 /\ RegularOver(LastIntervals(Min(10, Len(rrLog)))))

\* the mean of the up to 50 samples buffered last in a sample ring whose
\* write position is index (the ring has not wrapped: index samples are held)
OwnRecentMean(buffer, index) ==
  LET m == Min(index, 50)
  IN  FDiv(FSumRange(buffer, index - m, index), F(m))

\* C26: when the threshold controller runs, each channel's new threshold is
\* 1.5 times the mean of that channel's own most recent up to 50 buffered
\* samples, whatever the write positions of the two sample buffers.
C26_ThresholdFromOwnRecent ==
  [][lastUpdate' # lastUpdate =>
       /\ ecgBufferIndex' > 0 =>
            ecgThreshold' = FMul(OwnRecentMean(ecgBuffer', ecgBufferIndex'), <<3, 2>>)
       /\ ppgBufferIndex' > 0 =>
            ppgThreshold' = FMul(OwnRecentMean(ppgBuffer', ppgBufferIndex'), <<3, 2>>)]_vars

RECURSIVE PointSum(_, _, _)
\* sum of the field of the stored points 0 .. n-1
PointSum(points, field, n) ==
  IF n = 0 THEN F(0) ELSE FAdd(PointSum(points, field, n - 1), points[n - 1][field])

RECURSIVE CrossSum(_, _, _, _, _)
\* sum over the stored points 0 .. n-1 of (ptt - meanX) * (field - meanY)
CrossSum(points, field, meanX, meanY, n) ==
  IF n = 0 THEN F(0)
  ELSE FAdd(CrossSum(points, field, meanX, meanY, n - 1),
            FMul(FSub(points[n - 1].ptt, meanX), FSub(points[n - 1][field], meanY)))

\* the ordinary least-squares line of the field over the transit time
LeastSquares(points, field, n) ==
  LET meanX == FDiv(PointSum(points, "ptt", n), F(n))
      meanY == FDiv(PointSum(points, field, n), F(n))
      slope == FDiv(CrossSum(points, field, meanX, meanY, n),
                    CrossSum(points, "ptt", meanX, meanX, n))
  IN  [slope |-> slope, intercept |-> FSub(meanY, FMul(slope, meanX))]

\* the stored points do not all have the same transit time
PTTsDiffer ==
  \E i \in 0..(calibrationCount - 1) : calibrationPoints[i].ptt # calibrationPoints[0].ptt

\* C27: whenever at least 2 calibration points with not all transit times
\* equal are stored, the four coefficients are the ordinary least-squares fit
\* over exactly the stored points.
C27_ModelIsLeastSquaresFit ==
  (calibrationCount >= 2 /\ PTTsDiffer) =>
    LET sys == LeastSquares(calibrationPoints, "systolic", calibrationCount)
        dia == LeastSquares(calibrationPoints, "diastolic", calibrationCount)
    IN  /\ systolicSlope = sys.slope /\ systolicIntercept = sys.intercept
        /\ diastolicSlope = dia.slope /\ diastolicIntercept = dia.intercept

\* C28: while fewer than 2 calibration points are stored, the estimate before
\* compensation is the population-default model, systolic = -1.2 * PTT + 180
\* and diastolic = -0.8 * PTT + 120, whatever operations came before.
C28_DefaultModelBelowTwoPoints ==
  (Queried /\ EstimateReached(lastReading) /\ calibrationCount < 2) =>
    LET ptt == lastReading.pulseTransitTime
        rawSystolic == FAdd(FMul(<<-6, 5>>, ptt), F(180))
        rawDiastolic == FAdd(FMul(<<-4, 5>>, ptt), F(120))
    IN  /\ lastReading.systolic =
             compensateForGender(compensateForAge(rawSystolic, userAge), userIsMale)
        /\ lastReading.diastolic =
             compensateForGender(compensateForAge(rawDiastolic, userAge), userIsMale)

\* what a monitor does with its next sample of one channel: the filtered
\* value and whether a peak is recorded for it
NextSample(buffer, det, raw, threshold, refractory) ==
  LET filtered == applyBandpassFilter(buffer, raw).value
  IN  [filtered |-> filtered,
       fired |-> detectPeak(det, filtered, threshold, refractory, clock).fired]

\* the same for a freshly constructed monitor with these thresholds and this
\* clock: an all-zero filter window and a detector that has seen nothing
FreshSample(raw, threshold, refractory) ==
  LET filtered == Norm(raw, FILTER_SIZE)
  IN  [filtered |-> filtered,
       fired |-> detectPeak(ZeroDetector, filtered, threshold, refractory, clock).fired]

\* C29: after reset() the monitor treats the samples that follow as a freshly
\* constructed monitor with the same thresholds and clock does: the same
\* filtered value and the same peak decision, nothing of the filter windows
\* or of the detector state being carried over the reset.
C29_ResetLikeFresh ==
  lastOp = "reset" =>
    /\ \A raw \in {EcgAmplitude, -EcgAmplitude} :
         NextSample(ecgFilterBuffer, ecgDet, raw, ecgThreshold, ECG_REFRACTORY)
           = FreshSample(raw, ecgThreshold, ECG_REFRACTORY)
    /\ \A raw \in {PpgAmplitude, -PpgAmplitude} :
         NextSample(ppgFilterBuffer, ppgDet, raw, ppgThreshold, PPG_REFRACTORY)
           = FreshSample(raw, ppgThreshold, PPG_REFRACTORY)

\* at least 5 peaks on each channel and a regular rhythm
WellSupplied == ecgPeakCount >= 5 /\ ppgPeakCount >= 5 /\ checkRhythmRegularity

\* C30: staleness is not fatal: with at least 5 peaks per channel and a
\* regular rhythm the quality is above 70 even when more than 10 s passed
\* since the last valid reading, or none was ever produced; a reading whose
\* pressures and PTT are in range is then valid, and with it the monitor has
\* left the stale condition.
C30_StalenessNotFatal ==
  /\ WellSupplied => assessSignalQuality > 70
  /\ (Queried /\ EstimateReached(lastReading) /\ WellSupplied
        /\ OtherGatesInside(lastReading)) =>
       /\ lastReading.signalQuality > 70
       /\ lastReading.validReading
       /\ USub(clock, lastValidReading) <= STALE_AFTER

\* a first reading asked for after more than 10 s: the staleness penalty was
\* applied (quality 75), the reading is valid and the monitor is no longer
\* stale
C30_Witness ==
  /\ Queried /\ WellSupplied /\ clock > STALE_AFTER
  /\ lastReading.signalQuality = 75
  /\ lastReading.validReading
  /\ lastValidReading = clock
  /\ assessSignalQuality = 100

\* the engine state other than the time of the last valid reading
frameVars == <<calibVars, sampleVars, ecgPeakVars, ppgPeakVars, thresholdVars,
               adaptiveThresholding, userVars, ecgDet, ppgDet>>

\* C31: calculateBloodPressure changes no engine state except the time of the
\* last valid reading, and sets that one, to the current time, only when the
\* reading returned is valid: sample buffers, peak stores, counts, R-R
\* intervals, thresholds and calibration are unchanged by every call.
C31_QueryFrame ==
  [][lastOp' = "calculateBloodPressure" =>
       /\ UNCHANGED frameVars
       /\ lastValidReading' = IF lastReading'.validReading THEN clock
                              ELSE lastValidReading]_vars

\* both cases happened: a valid reading stamped the time, and a later
\* reading that is not valid left the stamp alone
C31_Witness ==
  /\ Queried /\ ~lastReading.validReading
  /\ lastValidReading > 0 /\ lastValidReading < clock

\* C32: every ring index stays inside its buffer in every reachable state and
\* under every interleaving of ingestion, query and reset: the filter index in
\* 0..9, the sample-buffer indices in 0..199, the peak-store indices in 0..19,
\* the R-R write index in 0..49 and the calibration write index in 0..4; the
\* peak-store index that the R-R statement of an addECGSample in progress is
\* about to use is one of them.
C32_IndicesInsideBuffers ==
  /\ filterIndex \in 0..(FILTER_SIZE - 1)
  /\ ecgBufferIndex \in 0..(BP_BUFFER_SIZE - 1)
  /\ ppgBufferIndex \in 0..(BP_BUFFER_SIZE - 1)
  /\ CRem(ecgPeakCount, PEAK_SLOTS) \in 0..(PEAK_SLOTS - 1)
  /\ CRem(ppgPeakCount, PEAK_SLOTS) \in 0..(PEAK_SLOTS - 1)
  /\ CRem(rrCount, RR_SLOTS) \in 0..(RR_SLOTS - 1)
  /\ calibrationCount \in 0..MAX_CALIBRATION
  /\ pc = "rr" => CRem(ecgPeakCount - 2, PEAK_SLOTS) \in 0..(PEAK_SLOTS - 1)

\* C33: every valid reading is produced by a query made in a state where both
\* peak counts are at least 5 and isReadyForMeasurement() is true, and its
\* signal quality is 75, 80 or 100.
C33_ValidOnlyWhenReady ==
  [][(lastOp' = "calculateBloodPressure" /\ lastReading'.validReading) =>
       /\ ecgPeakCount >= 5 /\ ppgPeakCount >= 5
       /\ isReadyForMeasurement
       /\ lastReading'.signalQuality \in {75, 80, 100}]_vars

\* a valid reading of quality 80: enough peaks, the rhythm not yet regular
C33_Witness ==
  /\ Queried /\ lastReading.validReading
  /\ lastReading.signalQuality = 80 /\ ~lastReading.rhythmRegular
  /\ ecgPeakCount >= 5 /\ ppgPeakCount >= 5

\* C34: the calibration count never decreases: each step leaves it alone
\* except a successful addCalibrationPoint, which adds one (so the count is the
\* number of successful calls); no step, reset() included, alters a point
\* already stored; with 5 points stored addCalibrationPoint returns false.
C34_CalibrationOnlyGrows ==
  [][/\ calibrationCount' = calibrationCount +
          (IF lastOp' = "addCalibrationPoint" /\ calRet' = TRUE THEN 1 ELSE 0)
     /\ \A i \in 0..(calibrationCount - 1) : calibrationPoints'[i] = calibrationPoints[i]
     /\ (calibrationCount = MAX_CALIBRATION /\ lastOp' = "addCalibrationPoint")
          => calRet' = FALSE]_vars

\* the store is full and a further point has just been refused
C34_Witness ==
  /\ calibrationCount = MAX_CALIBRATION
  /\ lastOp = "addCalibrationPoint" /\ calRet = FALSE
  /\ calls = MAX_CALIBRATION + 1

\* C35: setPersonalParameters is idempotent: a call that directly follows a
\* call with the same (age, height, isMale) leaves the engine in the state
\* the first call left it in.
C35_ProfileIdempotent ==
  [][(/\ lastOp = "setPersonalParameters" /\ lastOp' = "setPersonalParameters"
      /\ passedProfile' = passedProfile)
       => UNCHANGED <<frameVars, lastValidReading>>]_vars

PTTInWindow(ptt) == FLe(F(50), ptt) /\ FLe(ptt, F(400))

\* the validity gate without its upper transit-time bound, on a returned reading
GateWithoutUpperPTT(r) ==
  /\ r.signalQuality > 70
  /\ FGt(r.systolic, F(70)) /\ FLt(r.systolic, F(250))
  /\ FGt(r.diastolic, F(40)) /\ FLt(r.diastolic, F(150))
  /\ FGt(r.pulseTransitTime, F(50))

\* C36: every result of calculatePTT other than the sentinel -1 lies in
\* [50, 400] ms; the transit time of every reading that reached the estimate
\* lies in [50, 400]; and the upper bound 500 of the validity gate never
\* decides: a reading is valid exactly when the rest of the gate holds.
C36_PTTWithinWindow ==
  /\ calculatePTT = F(-1) \/ PTTInWindow(calculatePTT)
  /\ (Queried /\ lastReading.pulseTransitTime # F(0))
       => PTTInWindow(lastReading.pulseTransitTime)
  /\ Queried => (lastReading.validReading <=> GateWithoutUpperPTT(lastReading))

\* a reading that reached the estimate with the transit time on the lower
\* edge of the matching window
C36_Witness ==
  /\ Queried /\ lastReading.pulseTransitTime = F(50)
  /\ ~lastReading.validReading /\ lastReading.signalQuality > 70

\* C37: with each operation run to completion, the R-R interval count is at
\* most max(0, ECG peak count - 1); hence the rhythm is found regular only
\* with at least 6 ECG peaks and the HRV is non-zero only with at least 11
\* ECG peaks since the last reset, in the engine and in every reading.
C37_IntervalsBelowPeaks ==
  /\ rrCount <= Max(0, ecgPeakCount - 1)
  /\ checkRhythmRegularity => ecgPeakCount >= 6
  /\ calculateHRV.sqrtOf # F(0) => ecgPeakCount >= 11
  /\ Queried => /\ lastReading.rhythmRegular => ecgPeakCount >= 6
                /\ lastReading.heartRateVariability.sqrtOf # F(0) => ecgPeakCount >= 11

\* a reading with a non-zero HRV, from ten or more intervals of two lengths
C37_Witness ==
  /\ Queried /\ lastReading.heartRateVariability.sqrtOf # F(0)
  /\ rrCount >= 10 /\ ecgPeakCount >= 11

\* the profile the engine is constructed with
DefaultProfile == userAge = 30 /\ userIsMale

\* C38: with no calibration point stored and the default profile (age 30,
\* male), every valid reading has 50 < PTT < 93 ms; a reading with a PTT of
\* 200 ms is never valid on the default model.
C38_DefaultModelWindow ==
  (Queried /\ calibrationCount = 0 /\ DefaultProfile) =>
     /\ lastReading.validReading =>
          /\ FGt(lastReading.pulseTransitTime, F(50))
          /\ FLt(lastReading.pulseTransitTime, F(93))
     /\ lastReading.pulseTransitTime = F(200) => ~lastReading.validReading

\* a valid reading of the default model just below the largest transit time
\* it accepts
C38_Witness ==
  /\ Queried /\ calibrationCount = 0 /\ DefaultProfile
  /\ lastReading.validReading /\ lastReading.needsCalibration
  /\ lastReading.pulseTransitTime = F(90)

====
